---- MODULE Spec2Model ----
(***************************************************************************)
(* A model of the interceptor proxy: the model-keyed request cache         *)
(* (src/src/request-cache.js) and the request handler that classifies,     *)
(* diffs and caches each inbound request before forwarding it              *)
(* (src/src/proxy.js).                                                     *)
(*                                                                         *)
(* JavaScript runs a handler to completion between two awaits, so every    *)
(* synchronous stretch of the handler is one action: the request phase     *)
(* (proxy.js 17-144, up to `await axios`), the response phase (146-256)    *)
(* and the error phase (258-296).                                          *)
(***************************************************************************)
EXTENDS Integers, Sequences, FiniteSets, TLC

\* ------------------------------------------------------------------ bounds
\* Number of inbound requests the proxy receives in one run.
NumRequests == 2
\* Longest messages array a request body carries.
MaxMsgs == 1
\* Largest number of events in an upstream event stream.
MaxEvents == 5

\* ------------------------------------------------------------ input values
\* Values of the body's model field that are truthy (the session keys).
Keys == {"m1", "m2"}
\* A falsy / missing model field.
NoModel == ""
\* The JSON number 123 as model field: truthy, and not a string.
NumberModel == "123"
IsString(model) == model # NumberModel
\* Messages are opaque JSON scalars.
Msgs == {"a", "b"}
MsgLists == UNION {[1..n -> Msgs] : n \in 0..MaxMsgs}

\* req.headers as a name -> value map.
HostOnly == ("host" :> "proxy")
HostAndLength == ("host" :> "proxy") @@ ("content-length" :> "10")
InboundHeaders == {HostOnly, HostAndLength}
\* Order in which Object.keys enumerates header names.
HeaderOrder == <<"host", "content-length", "content-type">>
EmptyMap == [n \in {} |-> ""]

\* response.headers of the upstream.
JsonResponse == ("content-type" :> "application/json")
SseResponse == ("content-type" :> "text/event-stream")
ResponseHeaders == {JsonResponse, SseResponse}

\* req.body after the express body parsers: nothing, a string that JSON.parse
\* rejects, or a JSON object (with or without model / messages fields).
BodyOf(kind, model, hasMessages, messages) ==
  [kind |-> kind, model |-> model, hasMessages |-> hasMessages, messages |-> messages]
NoBody == BodyOf("none", NoModel, FALSE, <<>>)
MalformedBody == BodyOf("malformed", NoModel, FALSE, <<>>)
KeyedBodies ==
  {BodyOf("json", k, TRUE, m) : k \in Keys, m \in MsgLists}
    \cup {BodyOf("json", k, FALSE, <<>>) : k \in Keys}
RequestBodies ==
  {NoBody, MalformedBody, BodyOf("json", NoModel, FALSE, <<>>)} \cup KeyedBodies

\* ----------------------------------------------------------- JS optionals
\* A value that may be null / undefined: tag is "null", "undefined" or "value".
Null == [tag |-> "null", val |-> <<>>]
Undefined == [tag |-> "undefined", val |-> <<>>]
Just(v) == [tag |-> "value", val |-> v]
Truthy(o) == o.tag = "value"

\* ------------------------------------------------------ structural differ
\* A path segment is an object key (a string) or an array index (a number).
KeySeg(s) == [isNum |-> FALSE, num |-> 0, str |-> s]
IdxSeg(i) == [isNum |-> TRUE, num |-> i, str |-> ""]
\* A diffed value: a scalar, an array of scalars, or nothing.
Atom(s) == [isList |-> FALSE, atom |-> s, list |-> <<>>]
ListVal(l) == [isList |-> TRUE, atom |-> "", list |-> l]
NoVal == [isList |-> FALSE, atom |-> "undefined", list |-> <<>>]

\* deep-diff's records: kind N (new), D (deleted), E (edited), or A (array
\* change at `index`, whose nested item has kind itemKind).
DiffRec(kind, path, index, itemKind, lhs, rhs) ==
  [kind |-> kind, path |-> path, index |-> index, itemKind |-> itemKind,
   lhs |-> lhs, rhs |-> rhs]
DiffNew(path, rhs) == DiffRec("N", path, -1, "", NoVal, rhs)
DiffDeleted(path, lhs) == DiffRec("D", path, -1, "", lhs, NoVal)
DiffEdit(path, lhs, rhs) == DiffRec("E", path, -1, "", lhs, rhs)
DiffArrayNew(path, i, rhs) == DiffRec("A", path, i, "N", NoVal, rhs)
DiffArrayDeleted(path, i, lhs) == DiffRec("A", path, i, "D", lhs, NoVal)

MinOf(a, b) == IF a < b THEN a ELSE b

\* Mutant: an edit reported for every common index, equal elements included.
diffArray_EditsEveryIndex(path, lhs, rhs) ==
  LET nl == Len(lhs)
      nr == Len(rhs)
      n == MinOf(nl, nr)
      added == [t \in 1..(IF nr > nl THEN nr - nl ELSE 0) |->
                  DiffArrayNew(path, nr - t, Atom(rhs[nr - t + 1]))]
      removed == [t \in 1..(IF nl > nr THEN nl - nr ELSE 0) |->
                  DiffArrayDeleted(path, nl - t, Atom(lhs[nl - t + 1]))]
      common == [t \in 1..n |->
                  DiffEdit(Append(path, IdxSeg(n - t)),
                           Atom(lhs[n - t + 1]), Atom(rhs[n - t + 1]))]
  IN added \o removed \o common

\* deep-diff on two arrays of scalars: the surplus elements of the longer
\* array from the last index down, then the common indices from the last
\* down, an edit for each index at which the elements differ.
diffArray(path, lhs, rhs) ==
  LET nl == Len(lhs)
      nr == Len(rhs)
      n == MinOf(nl, nr)
      added == [t \in 1..(IF nr > nl THEN nr - nl ELSE 0) |->
                  DiffArrayNew(path, nr - t, Atom(rhs[nr - t + 1]))]
      removed == [t \in 1..(IF nl > nr THEN nl - nr ELSE 0) |->
                  DiffArrayDeleted(path, nl - t, Atom(lhs[nl - t + 1]))]
      common == [t \in 1..n |->
                  [differ |-> lhs[n - t + 1] # rhs[n - t + 1],
                   rec |-> DiffEdit(Append(path, IdxSeg(n - t)),
                                    Atom(lhs[n - t + 1]), Atom(rhs[n - t + 1]))]]
      edited == SelectSeq(common, LAMBDA c : c.differ)
  IN added \o removed \o [t \in 1..Len(edited) |-> edited[t].rec]

\* deep-diff on two request bodies {model, messages}: the keys of lhs in
\* order, then the keys only rhs has.
diffBodyChanges(lhs, rhs) ==
  LET modelPath == <<KeySeg("model")>>
      msgPath == <<KeySeg("messages")>>
      model == IF lhs.model # rhs.model
               THEN <<DiffEdit(modelPath, Atom(lhs.model), Atom(rhs.model))>>
               ELSE <<>>
      messages ==
        IF lhs.hasMessages /\ rhs.hasMessages
          THEN diffArray(msgPath, lhs.messages, rhs.messages)
        ELSE IF lhs.hasMessages
          THEN <<DiffDeleted(msgPath, ListVal(lhs.messages))>>
        ELSE IF rhs.hasMessages
          THEN <<DiffNew(msgPath, ListVal(rhs.messages))>>
        ELSE <<>>
  IN model \o messages

\* deep-diff on two header maps.
diffHeaderChanges(lhs, rhs) ==
  LET perKey(name) ==
        IF name \in DOMAIN lhs /\ name \in DOMAIN rhs
          THEN IF lhs[name] # rhs[name]
                 THEN <<DiffEdit(<<KeySeg(name)>>, Atom(lhs[name]), Atom(rhs[name]))>>
                 ELSE <<>>
        ELSE IF name \in DOMAIN lhs
          THEN <<DiffDeleted(<<KeySeg(name)>>, Atom(lhs[name]))>>
        ELSE <<>>
      onlyRhs(name) ==
        IF name \in DOMAIN rhs /\ name \notin DOMAIN lhs
          THEN <<DiffNew(<<KeySeg(name)>>, Atom(rhs[name]))>>
          ELSE <<>>
      both == [i \in 1..Len(HeaderOrder) |-> perKey(HeaderOrder[i])]
      news == [i \in 1..Len(HeaderOrder) |-> onlyRhs(HeaderOrder[i])]
      Flat[i \in 0..Len(HeaderOrder)] ==
        IF i = 0 THEN <<>> ELSE Flat[i - 1] \o both[i]
      FlatNew[i \in 0..Len(HeaderOrder)] ==
        IF i = 0 THEN <<>> ELSE FlatNew[i - 1] \o news[i]
  IN Flat[Len(HeaderOrder)] \o FlatNew[Len(HeaderOrder)]

\* diff.diff returns undefined when nothing differs, else the array.
diffResult(changes) == IF changes = <<>> THEN Undefined ELSE Just(changes)
diffBody(lhs, rhs) == diffResult(diffBodyChanges(lhs, rhs))
diffHeaders(lhs, rhs) == diffResult(diffHeaderChanges(lhs, rhs))

\* ---------------------------------------------------------- request cache
\* requestCache is a Map: a function whose domain is the set of keys present.
MapSet(cache, k, v) == [x \in DOMAIN cache \cup {k} |-> IF x = k THEN v ELSE cache[x]]
MapDelete(cache, k) == [x \in DOMAIN cache \ {k} |-> cache[x]]
EmptyCache == [k \in {} |-> 0]
Entry(body, headers, responseHeaders) ==
  [body |-> body, headers |-> headers, responseHeaders |-> responseHeaders]

getCachedData(cache, modelKey) ==
  IF modelKey \in DOMAIN cache THEN Just(cache[modelKey]) ELSE Undefined

\* Mutant: updateCache that replaces an entry but never creates one.
updateCache_OnlyIfPresent(cache, modelKey, body, headers, responseHeaders) ==
  IF modelKey \in DOMAIN cache
    THEN MapSet(cache, modelKey,
                Entry(body, headers,
                      IF Truthy(responseHeaders) THEN responseHeaders
                      ELSE cache[modelKey].responseHeaders))
    ELSE cache

\* Mutant: updateCache that stores only the response headers it is given.
updateCache_DropsResponseHeaders(cache, modelKey, body, headers, responseHeaders) ==
  MapSet(cache, modelKey,
         Entry(body, headers,
               IF Truthy(responseHeaders) THEN responseHeaders ELSE Undefined))

\* Mutant: updateCache that keeps the request headers of an existing entry.
updateCache_KeepsHeaders(cache, modelKey, body, headers, responseHeaders) ==
  LET existingCache == getCachedData(cache, modelKey)
      kept == IF Truthy(responseHeaders) THEN responseHeaders
              ELSE IF Truthy(existingCache) THEN existingCache.val.responseHeaders
              ELSE Undefined
  IN MapSet(cache, modelKey,
            Entry(body,
                  IF Truthy(existingCache) THEN existingCache.val.headers ELSE headers,
                  kept))

\* responseHeaders || existingCache?.responseHeaders
updateCache(cache, modelKey, body, headers, responseHeaders) ==
  LET existingCache == getCachedData(cache, modelKey)
      kept == IF Truthy(responseHeaders) THEN responseHeaders
              ELSE IF Truthy(existingCache) THEN existingCache.val.responseHeaders
              ELSE Undefined
  IN MapSet(cache, modelKey, Entry(body, headers, kept))

\* Mutant: updateResponseHeaders that creates the entry when there is none.
updateResponseHeaders_Upsert(cache, modelKey, responseHeaders) ==
  IF modelKey \in DOMAIN cache
    THEN MapSet(cache, modelKey,
                [cache[modelKey] EXCEPT !.responseHeaders = Just(responseHeaders)])
    ELSE MapSet(cache, modelKey, [body |-> [kind |-> "none", model |-> "",
                                            hasMessages |-> FALSE, messages |-> <<>>],
                                  headers |-> [n \in {} |-> ""],
                                  responseHeaders |-> Just(responseHeaders)])

updateResponseHeaders(cache, modelKey, responseHeaders) ==
  IF modelKey \in DOMAIN cache
    THEN MapSet(cache, modelKey,
                [cache[modelKey] EXCEPT !.responseHeaders = Just(responseHeaders)])
    ELSE cache

\* Mutant: bustCache that empties the whole cache (requestCache.clear()).
bustCache_ClearsAll(cache, modelKey) == [k \in {} |-> 0]

bustCache(cache, modelKey) == MapDelete(cache, modelKey)

\* body.messages || []
MessagesOf(body) == IF body.hasMessages THEN body.messages ELSE <<>>

Analysis(isFirstRequest, cacheBusted, shouldDiff, bodyDiff, headerDiff) ==
  [isFirstRequest |-> isFirstRequest, cacheBusted |-> cacheBusted,
   shouldDiff |-> shouldDiff, bodyDiff |-> bodyDiff, headerDiff |-> headerDiff]

\* Mutant: analyzeCacheStatus without the reset check (a shorter messages
\* list is diffed like any other).
analyzeCacheStatus_NeverBusts(cache, modelKey, currentBody, currentHeaders) ==
  IF modelKey \notin DOMAIN cache
    THEN [cache |-> cache, result |-> Analysis(TRUE, FALSE, FALSE, Null, Null)]
  ELSE [cache |-> cache,
        result |-> Analysis(FALSE, FALSE, TRUE,
                            diffBody(cache[modelKey].body, currentBody),
                            diffHeaders(cache[modelKey].headers, currentHeaders))]

\* Mutant: analyzeCacheStatus that diffs from the current request to the
\* cached one (the arguments of diff.diff swapped).
analyzeCacheStatus_DiffSwapped(cache, modelKey, currentBody, currentHeaders) ==
  IF modelKey \notin DOMAIN cache
    THEN [cache |-> cache, result |-> Analysis(TRUE, FALSE, FALSE, Null, Null)]
  ELSE IF Len(MessagesOf(currentBody)) < Len(MessagesOf(cache[modelKey].body))
    THEN [cache |-> bustCache(cache, modelKey),
          result |-> Analysis(FALSE, TRUE, FALSE, Null, Null)]
  ELSE [cache |-> cache,
        result |-> Analysis(FALSE, FALSE, TRUE,
                            diffBody(currentBody, cache[modelKey].body),
                            diffHeaders(currentHeaders, cache[modelKey].headers))]

\* Mutant: analyzeCacheStatus whose reset branch falls through to the diff
\* (the early return missing), so a bust also reports shouldDiff and diffs.
analyzeCacheStatus_BustFallsThrough(cache, modelKey, currentBody, currentHeaders) ==
  IF modelKey \notin DOMAIN cache
    THEN [cache |-> cache, result |-> Analysis(TRUE, FALSE, FALSE, Null, Null)]
  ELSE LET busted == Len(MessagesOf(currentBody)) < Len(MessagesOf(cache[modelKey].body))
       IN [cache |-> IF busted THEN bustCache(cache, modelKey) ELSE cache,
           result |-> Analysis(FALSE, busted, TRUE,
                               diffBody(cache[modelKey].body, currentBody),
                               diffHeaders(cache[modelKey].headers, currentHeaders))]

\* Mutant: analyzeCacheStatus whose reset check is <= (an equally long
\* messages list also busts the cache).
analyzeCacheStatus_BustsOnEqual(cache, modelKey, currentBody, currentHeaders) ==
  IF modelKey \notin DOMAIN cache
    THEN [cache |-> cache, result |-> Analysis(TRUE, FALSE, FALSE, Null, Null)]
  ELSE IF Len(MessagesOf(currentBody)) <= Len(MessagesOf(cache[modelKey].body))
    THEN [cache |-> bustCache(cache, modelKey),
          result |-> Analysis(FALSE, TRUE, FALSE, Null, Null)]
  ELSE [cache |-> cache,
        result |-> Analysis(FALSE, FALSE, TRUE,
                            diffBody(cache[modelKey].body, currentBody),
                            diffHeaders(cache[modelKey].headers, currentHeaders))]

\* analyzeCacheStatus returns its result and, through bustCache, changes the
\* cache: the pair [cache, result].
analyzeCacheStatus(cache, modelKey, currentBody, currentHeaders) ==
  IF modelKey \notin DOMAIN cache
    THEN [cache |-> cache, result |-> Analysis(TRUE, FALSE, FALSE, Null, Null)]
  ELSE IF Len(MessagesOf(currentBody)) < Len(MessagesOf(cache[modelKey].body))
    THEN [cache |-> bustCache(cache, modelKey),
          result |-> Analysis(FALSE, TRUE, FALSE, Null, Null)]
  ELSE [cache |-> cache,
        result |-> Analysis(FALSE, FALSE, TRUE,
                            diffBody(cache[modelKey].body, currentBody),
                            diffHeaders(cache[modelKey].headers, currentHeaders))]

\* ------------------------------------------------ formatDiff (formatters.js)
\* String.prototype.localeCompare orders strings by the collation weights of
\* their characters, digits before letters. CollationKey gives the weights
\* of the strings that occur as path segments.
Digit(n) == <<n>>
CollationKey(str) ==
  CASE str = "0" -> <<0>>
    [] str = "15" -> <<1, 5>>
    [] str = "cache" -> <<12, 10, 12, 17, 14>>
    [] str = "content" -> <<12, 24, 23, 29, 14, 23, 29>>
    [] str = "messages" -> <<22, 14, 28, 28, 10, 16, 14, 28>>
    [] str = "model" -> <<22, 24, 13, 14, 21>>
    [] str = "role" -> <<27, 24, 21, 14>>
\* String(segment): the decimal digits of an index, the key itself otherwise.
SegString(seg) ==
  IF seg.isNum
    THEN IF seg.num < 10 THEN Digit(seg.num) ELSE <<seg.num \div 10, seg.num % 10>>
    ELSE CollationKey(seg.str)
\* a.localeCompare(b) on collation keys: negative, zero or positive.
RECURSIVE localeCompare(_, _)
localeCompare(a, b) ==
  IF a = <<>> /\ b = <<>> THEN 0
  ELSE IF a = <<>> THEN -1
  ELSE IF b = <<>> THEN 1
  ELSE IF Head(a) < Head(b) THEN -1
  ELSE IF Head(a) > Head(b) THEN 1
  ELSE localeCompare(Tail(a), Tail(b))

\* The first position up to the shorter path's length at which the two
\* paths differ (pathA[i] !== pathB[i]), or none.
FirstDifference(pathA, pathB) ==
  LET differ == {i \in 1..MinOf(Len(pathA), Len(pathB)) : pathA[i] # pathB[i]}
  IN IF differ = {} THEN 0 ELSE CHOOSE i \in differ : \A j \in differ : i <= j

\* The comparator handed to sort by formatDiff.
compareDiffs(a, b) ==
  LET i == FirstDifference(a.path, b.path)
  IN IF i # 0
       THEN IF a.path[i].isNum /\ b.path[i].isNum THEN a.path[i].num - b.path[i].num
            ELSE localeCompare(SegString(a.path[i]), SegString(b.path[i]))
     ELSE IF a.kind = "A" /\ b.kind = "A" THEN a.index - b.index
     ELSE Len(a.path) - Len(b.path)

Sign(n) == IF n < 0 THEN -1 ELSE IF n > 0 THEN 1 ELSE 0
\* Array.prototype.sort promises an order only for a consistent comparator:
\* antisymmetric, transitive, and with transitive ties.
ConsistentComparator(differences) ==
  LET I == 1..Len(differences)
      c(i, j) == Sign(compareDiffs(differences[i], differences[j]))
  IN /\ \A i, j \in I : c(i, j) = -c(j, i)
     /\ \A i, j, k \in I : (c(i, j) < 0 /\ c(j, k) < 0) => c(i, k) < 0
     /\ \A i, j, k \in I : (c(i, j) = 0 /\ c(j, k) = 0) => c(i, k) = 0
IndexOrders(n) == {f \in [1..n -> 1..n] : \A i, j \in 1..n : f[i] = f[j] => i = j}
\* [...differences].sort(compare): the stable sorted order when the
\* comparator is consistent on the records, any order otherwise.
SortOutcomes(differences) ==
  LET n == Len(differences)
      stable == {f \in IndexOrders(n) :
                   \A i, j \in 1..n :
                     i < j => LET c == compareDiffs(differences[f[i]], differences[f[j]])
                              IN c < 0 \/ (c = 0 /\ f[i] < f[j])}
      orders == IF ConsistentComparator(differences) THEN stable ELSE IndexOrders(n)
  IN {[i \in 1..n |-> differences[f[i]]] : f \in orders}

\* ------------------------------------------------- SSE stream (sse-parser.js)
\* A string is a sequence of text chunks, so that '' is <<>> (falsy) and +
\* is \o.
EmptyText == <<>>
UsageKeys == {"input_tokens", "output_tokens"}
NoUsage == [k \in {} |-> 0]

\* A content block: { type, text? }; a hole of the sparse contentBlocks array
\* has present = FALSE.
Block(text) == [present |-> TRUE, text |-> text]
Hole == [present |-> FALSE, text |-> Undefined]
\* The message object: stop_reason, usage and content are the fields the
\* reconstruction reads or writes.
Message(stop_reason, usage, content) ==
  [stop_reason |-> stop_reason, usage |-> usage, content |-> content]
NoDelta == [text |-> Undefined, stop_reason |-> Undefined]

\* event.data: null (no data line, or only blank ones), a string (a payload
\* JSON.parse rejects) or a parsed object with the fields the reconstruction
\* looks at.
DataOf(kind, message, index, content_block, delta, usage) ==
  [kind |-> kind, message |-> message, index |-> index,
   content_block |-> content_block, delta |-> delta, usage |-> usage]
NullData == DataOf("null", Undefined, 0, Undefined, Undefined, Undefined)
StringData == DataOf("string", Undefined, 0, Undefined, Undefined, Undefined)
MessageStartData(message) ==
  DataOf("object", Just(message), 0, Undefined, Undefined, Undefined)
ContentBlockStartData(index, text) ==
  DataOf("object", Undefined, index, Just(Block(text)), Undefined, Undefined)
ContentBlockDeltaData(index, text) ==
  DataOf("object", Undefined, index, Undefined,
         Just([text |-> Just(text), stop_reason |-> Undefined]), Undefined)
MessageDeltaData(stop_reason, usage) ==
  DataOf("object", Undefined, 0, Undefined,
         Just([text |-> Undefined, stop_reason |-> stop_reason]), usage)

\* One line of the stream text: "event: <name>", "data: <payload>" or any
\* other line. The payload, once trimmed, is blank, JSON text or other text.
EventLine(name) == [type |-> "event", name |-> name, payload |-> "blank", value |-> NullData]
DataLine(value) == [type |-> "data", name |-> "", payload |-> "json", value |-> value]
TextDataLine == [type |-> "data", name |-> "", payload |-> "text", value |-> StringData]
BlankDataLine == [type |-> "data", name |-> "", payload |-> "blank", value |-> NullData]
OtherLine == [type |-> "other", name |-> "", payload |-> "blank", value |-> NullData]

SseEvent(name, data) == [event |-> name, data |-> data]

\* Mutant: a blank data line resets the event's data to null.
AttachData_BlankClears(currentEvent, line) ==
  Just(SseEvent(currentEvent.val.event, line.value))

\* const dataStr = line.substring(6).trim(); if (dataStr) currentEvent.data =
\* JSON.parse(dataStr), or dataStr itself when JSON.parse throws.
AttachData(currentEvent, line) ==
  IF line.payload = "blank" THEN currentEvent
  ELSE Just(SseEvent(currentEvent.val.event, line.value))

\* parseSSE: the loop over the lines, from line i on, with the events pushed
\* so far and currentEvent.
RECURSIVE parseLines(_, _, _, _)
parseLines(lines, i, events, currentEvent) ==
  IF i > Len(lines)
    THEN IF Truthy(currentEvent) THEN Append(events, currentEvent.val) ELSE events
  ELSE LET line == lines[i]
       IN IF line.type = "event"
            THEN parseLines(lines, i + 1,
                            IF Truthy(currentEvent)
                              THEN Append(events, currentEvent.val) ELSE events,
                            Just(SseEvent(line.name, NullData)))
          ELSE IF line.type = "data" /\ Truthy(currentEvent)
            THEN parseLines(lines, i + 1, events, AttachData(currentEvent, line))
          ELSE parseLines(lines, i + 1, events, currentEvent)

\* Mutant: parseSSE without the push after the loop (the last event is lost).
parseSSE_DropsLast(sseData) ==
  LET events == parseLines(sseData, 1, <<>>, Null)
  IN IF events = <<>> THEN events ELSE SubSeq(events, 1, Len(events) - 1)

parseSSE(sseData) == parseLines(sseData, 1, <<>>, Null)

\* Mutant: the block pushed at the end of the array, whatever its index.
SetBlock_Appends(contentBlocks, index, block) == Append(contentBlocks, block)

\* contentBlocks[index] = block on a sparse array: the array grows to
\* index + 1, the new slots below index being holes.
SetBlock(contentBlocks, index, block) ==
  [j \in 1..(IF index + 1 > Len(contentBlocks) THEN index + 1 ELSE Len(contentBlocks)) |->
     IF j = index + 1 THEN block
     ELSE IF j <= Len(contentBlocks) THEN contentBlocks[j] ELSE Hole]
\* contentBlocks[index], truthy only for a started block.
HasBlock(contentBlocks, index) ==
  index + 1 <= Len(contentBlocks) /\ contentBlocks[index + 1].present
\* { ...message.usage, ...event.data.usage }
MergeUsage(old, new) == new @@ (IF Truthy(old) THEN old.val ELSE NoUsage)

\* Mutant: a delta for an index without a block starts the block itself.
AppendDelta_CreatesBlock(contentBlocks, index, text) ==
  IF index + 1 <= Len(contentBlocks) /\ contentBlocks[index + 1].present
    THEN LET old == contentBlocks[index + 1].text
         IN [contentBlocks EXCEPT ![index + 1].text =
               Just((IF Truthy(old) THEN old.val ELSE EmptyText) \o text)]
    ELSE [j \in 1..(IF index + 1 > Len(contentBlocks) THEN index + 1
                    ELSE Len(contentBlocks)) |->
            IF j = index + 1 THEN Block(Just(text))
            ELSE IF j <= Len(contentBlocks) THEN contentBlocks[j] ELSE Hole]

\* Mutant: the delta text put in front of the block's text.
AppendDelta_Prepends(contentBlocks, index, text) ==
  IF HasBlock(contentBlocks, index)
    THEN LET old == contentBlocks[index + 1].text
         IN [contentBlocks EXCEPT ![index + 1].text =
               Just(text \o (IF Truthy(old) THEN old.val ELSE EmptyText))]
    ELSE contentBlocks

\* if (contentBlocks[index]) contentBlocks[index].text = (text || '') + delta.text
AppendDelta(contentBlocks, index, text) ==
  IF HasBlock(contentBlocks, index)
    THEN LET old == contentBlocks[index + 1].text
         IN [contentBlocks EXCEPT ![index + 1].text =
               Just((IF Truthy(old) THEN old.val ELSE EmptyText) \o text)]
    ELSE contentBlocks

\* Mutant: the delta's usage put in place of the message's (no merge).
ApplyMessageDelta_ReplacesUsage(message, delta, usage) ==
  IF Truthy(message)
    THEN Just([message.val EXCEPT
                 !.stop_reason = IF Truthy(delta.stop_reason) THEN delta.stop_reason ELSE @,
                 !.usage = IF Truthy(usage) THEN usage ELSE @])
    ELSE message

\* if (message) { stop_reason = delta.stop_reason || message.stop_reason;
\*                if (data.usage) usage = { ...message.usage, ...data.usage } }
ApplyMessageDelta(message, delta, usage) ==
  IF Truthy(message)
    THEN Just([message.val EXCEPT
                 !.stop_reason = IF Truthy(delta.stop_reason) THEN delta.stop_reason ELSE @,
                 !.usage = IF Truthy(usage) THEN Just(MergeUsage(@, usage.val)) ELSE @])
    ELSE message

\* Mutant: the blocks returned as a message even when no message was started.
ReconstructResult_AlwaysMessage(message, contentBlocks) ==
  IF Len(contentBlocks) > 0
    THEN Just([(IF Truthy(message) THEN message.val ELSE Message(Null, Undefined, <<>>))
                 EXCEPT !.content = contentBlocks])
    ELSE message

\* if (message && contentBlocks.length > 0) message.content = contentBlocks;
\* return message
ReconstructResult(message, contentBlocks) ==
  IF Truthy(message) /\ Len(contentBlocks) > 0
    THEN Just([message.val EXCEPT !.content = contentBlocks])
    ELSE message

\* reconstructMessageFromSSE: the loop over the events, from event i on, with
\* message and contentBlocks as they stand.
RECURSIVE reconstructLoop(_, _, _, _)
reconstructLoop(events, i, message, contentBlocks) ==
  IF i > Len(events)
    THEN ReconstructResult(message, contentBlocks)
  ELSE LET e == events[i]
           d == e.data
       IN IF e.event = "message_start" /\ Truthy(d.message)
            THEN reconstructLoop(events, i + 1,
                                 Just([d.message.val EXCEPT !.content = <<>>]),
                                 contentBlocks)
          ELSE IF e.event = "content_block_start" /\ Truthy(d.content_block)
            THEN reconstructLoop(events, i + 1, message,
                                 SetBlock(contentBlocks, d.index, d.content_block.val))
          ELSE IF /\ e.event = "content_block_delta" /\ Truthy(d.delta)
                  /\ Truthy(d.delta.val.text) /\ d.delta.val.text.val # EmptyText
            THEN reconstructLoop(events, i + 1, message,
                                 AppendDelta(contentBlocks, d.index, d.delta.val.text.val))
          ELSE IF e.event = "message_delta" /\ Truthy(d.delta)
            THEN reconstructLoop(events, i + 1,
                                 ApplyMessageDelta(message, d.delta.val, d.usage),
                                 contentBlocks)
          ELSE reconstructLoop(events, i + 1, message, contentBlocks)

reconstructMessageFromSSE(events) == reconstructLoop(events, 1, Null, <<>>)

\* The handler's normalisation of a string response with an event-stream
\* content type: the reconstructed message when there is one, else the raw
\* stream text.
StringResponseData(text) == [kind |-> "string", text |-> text, message |-> Null]
ObjectResponseData(message) == [kind |-> "object", text |-> <<>>, message |-> Just(message)]
NormalizeSse(sseData) ==
  LET events == parseSSE(sseData)
      reconstructed == reconstructMessageFromSSE(events)
  IN [events |-> events,
      reconstructed |-> reconstructed,
      normalizedResponseData |-> IF Truthy(reconstructed)
                                   THEN ObjectResponseData(reconstructed.val)
                                   ELSE StringResponseData(sseData),
      usageInfo |-> IF Truthy(reconstructed) THEN reconstructed.val.usage ELSE Null]

\* ------------------------------------------------------- request handler
Requests == 1..NumRequests

VARIABLES
  loggingConfig,  \* the logging section of the configuration
  requestCache,   \* the module-level Map of request-cache.js
  pc,             \* where each request's handler stands: "idle" (not yet
                  \* received), "awaiting" the upstream, "aborted" (awaiting,
                  \* the client gone), "responded" or "failed" (answered)
  req,            \* each request as received: its body
  cacheInfo,      \* the handler's cacheInfo (compact-mode cache label)
  cacheAnalysis,  \* the body step's analyzeCacheStatus result, null if not run
  observed,       \* what each handler read from the cache for its key: the
                  \* entry when the handler started (atStart) and the
                  \* cachedData of the body step's analyzeCacheStatus (atClassify)
  sseData,        \* the text of an upstream event stream (response.data)
  sseOut,         \* what the handler made of it: events, reconstructed,
                  \* normalizedResponseData, usageInfo
  differences,    \* the records handed to formatDiff
  sortedDiffs,    \* formatDiff's sortedDiffs, null before the call
  requestLogger,  \* the persistence logger: enabled, requestCount
  response,       \* per request, what the upstream call came back with: the
                  \* response (status, data) or the error the handler holds
  saveCalls,      \* per request, the response records given to saveRequest
  sent            \* per request, the responses delivered to the caller

handlerVars == <<loggingConfig, requestCache, pc, req, cacheInfo, cacheAnalysis, observed,
                 requestLogger, response, saveCalls, sent>>
sseVars == <<sseData, sseOut>>
sortVars == <<differences, sortedDiffs>>
forwardVars == <<requestLogger, response, saveCalls, sent>>
vars == <<loggingConfig, requestCache, pc, req, cacheInfo, cacheAnalysis, observed,
          sseData, sseOut, differences, sortedDiffs,
          requestLogger, response, saveCalls, sent>>

LoggingConfigs ==
  [showHeaders : BOOLEAN, showBody : BOOLEAN, showResponse : BOOLEAN, compact : BOOLEAN]

\* bodyContent is truthy
HasBodyContent(body) == body.kind # "none"
\* Mutant: the key test without the check of the model field.
IsJsonWithModel_AnyObject(body) == body.kind = "json"

\* parsedBody && typeof parsedBody === 'object' && parsedBody.model
IsJsonWithModel(body) == body.kind = "json" /\ body.model # NoModel
\* modelKey; null (here the falsy NoModel) when no key is derived
ModelKey(body) == IF IsJsonWithModel(body) THEN body.model ELSE NoModel

\* Mutant: the copy of req.headers without the delete of host.
FilteredHeaders_KeepsHost(headers) == headers

\* const filteredHeaders = { ...req.headers }; delete filteredHeaders.host
FilteredHeaders(headers) == [n \in DOMAIN headers \ {"host"} |-> headers[n]]

InitialCacheInfo == [isFirstRequest |-> FALSE, cacheBusted |-> FALSE, hasDiff |-> FALSE]

\* logCompact's cache status indicator (logging/compact.js 8-18).
CacheLabel(info) ==
  IF info.isFirstRequest THEN "FIRST"
  ELSE IF info.cacheBusted THEN "RESET"
  ELSE IF info.hasDiff THEN "DIFF"
  ELSE "CACHED"

\* The header display step: with a cached entry for the key it calls
\* analyzeCacheStatus for the header diff, which may bust the cache.
HeaderStep(cache, config, body, headers) ==
  IF /\ config.showHeaders /\ ~config.compact
     /\ IsJsonWithModel(body)
     /\ Truthy(getCachedData(cache, ModelKey(body)))
    THEN analyzeCacheStatus(cache, ModelKey(body), body, FilteredHeaders(headers)).cache
    ELSE cache

\* Mutant: the body step that leaves the cache as analyzeCacheStatus left it
\* when the request was classified cache-busted (no updateCache after a bust).
BodyStep_NoUpdateAfterBust(cache, config, body, headers) ==
  IF config.showBody /\ body.kind # "none" /\ body.kind = "json" /\ body.model # NoModel
    THEN LET fh == [n \in DOMAIN headers \ {"host"} |-> headers[n]]
             a == analyzeCacheStatus(cache, body.model, body, fh)
         IN [cache |-> IF a.result.cacheBusted THEN a.cache
                       ELSE updateCache(a.cache, body.model, body, fh, Null),
             cacheInfo |-> [isFirstRequest |-> a.result.isFirstRequest,
                            cacheBusted |-> a.result.cacheBusted,
                            hasDiff |-> /\ Truthy(a.result.bodyDiff)
                                        /\ Len(a.result.bodyDiff.val) > 0],
             cacheAnalysis |-> Just(a.result),
             cachedData |-> getCachedData(cache, body.model)]
    ELSE [cache |-> cache,
          cacheInfo |-> [isFirstRequest |-> FALSE, cacheBusted |-> FALSE, hasDiff |-> FALSE],
          cacheAnalysis |-> Null, cachedData |-> Undefined]

\* The body display step: classify against the cache, then update the cache.
BodyStep(cache, config, body, headers) ==
  IF config.showBody /\ HasBodyContent(body) /\ IsJsonWithModel(body)
    THEN LET a == analyzeCacheStatus(cache, ModelKey(body), body, FilteredHeaders(headers))
         IN [cache |-> updateCache(a.cache, ModelKey(body), body,
                                   FilteredHeaders(headers), Null),
             cacheInfo |-> [isFirstRequest |-> a.result.isFirstRequest,
                            cacheBusted |-> a.result.cacheBusted,
                            hasDiff |-> /\ Truthy(a.result.bodyDiff)
                                        /\ Len(a.result.bodyDiff.val) > 0],
             cacheAnalysis |-> Just(a.result),
             cachedData |-> getCachedData(cache, ModelKey(body))]
    ELSE [cache |-> cache, cacheInfo |-> InitialCacheInfo, cacheAnalysis |-> Null,
          cachedData |-> Undefined]

\* The handler from its start to `await axios(requestConfig)`.
RequestPhase(cache, config, body, headers) ==
  BodyStep(HeaderStep(cache, config, body, headers), config, body, headers)

\* The response phase's cache write: updateResponseHeaders(modelKey, response.headers).
ResponsePhase(cache, config, body, responseHeaders) ==
  IF /\ config.showResponse /\ ~config.compact /\ config.showHeaders
     /\ IsJsonWithModel(body)
    THEN updateResponseHeaders(cache, ModelKey(body), responseHeaders)
    ELSE cache

\* ------------------------------------------------------ upstream outcomes
\* usage objects of message_start and of message_delta.
StartUsage == ("input_tokens" :> 1) @@ ("output_tokens" :> 0)
FinalUsage == ("output_tokens" :> 5)
\* JSON.parse(response.data) succeeds on a string that is the JSON text of an
\* object: one line of type "json".
JsonText(message) ==
  <<[type |-> "json", name |-> "", payload |-> "json", value |-> MessageStartData(message)]>>
IsJsonText(text) == Len(text) = 1 /\ text[1].type = "json"

\* An upstream response as the handler uses it: status, headers, data.
ResponseOf(status, headers, data) == [status |-> status, headers |-> headers, data |-> data]
\* A rejection of the upstream call: error.response (if any) and error.message.
ErrorOf(hasResponse, status, message) ==
  [hasResponse |-> hasResponse, status |-> status, message |-> message]
\* What the handler holds after the upstream call: nothing yet, the response
\* (status and data are what it still needs after its next await) or the
\* error; error is also the error the catch block caught, if it ran.
NoOutcome == [kind |-> "none", status |-> 0, data |-> StringResponseData(<<>>),
              error |-> ErrorOf(FALSE, 0, "")]
Resolved(resp) == [kind |-> "resolved", status |-> resp.status, data |-> resp.data,
                   error |-> ErrorOf(FALSE, 0, "")]
Rejected(error) == [kind |-> "rejected", status |-> 0, data |-> StringResponseData(<<>>),
                    error |-> error]

\* isSSEResponse(headers)
isSSEResponse(headers) ==
  "content-type" \in DOMAIN headers /\ headers["content-type"] = "text/event-stream"

\* res.status(response.status).send(response.data): the data as received.
ResponseDataToSend(resp) == resp.data

\* normalizedResponseData: the data itself when it is an object, the
\* reconstructed message of an event stream, the parsed JSON of a string,
\* or the string when neither works.
NormalizedResponseData(resp) ==
  IF resp.data.kind = "object" THEN resp.data
  ELSE IF isSSEResponse(resp.headers)
    THEN NormalizeSse(resp.data.text).normalizedResponseData
  ELSE IF IsJsonText(resp.data.text)
    THEN ObjectResponseData(resp.data.text[1].value.message.val)
  ELSE resp.data

\* error.response?.status || 500
ErrorStatus(error) ==
  IF error.hasResponse /\ error.status # 0 THEN error.status ELSE 500

\* What reaches the caller: the upstream data sent by res.send, the
\* { error: 'Proxy Error', message } object sent by the catch block, or the
\* framework's own error response.
SentOf(via, status, data, message) ==
  [via |-> via, status |-> status, data |-> data, message |-> message]
SuccessResponse(status, data) == SentOf("send", status, data, "")
ProxyErrorResponse(error) ==
  SentOf("catch", ErrorStatus(error), StringResponseData(<<>>), error.message)
FrameworkErrorResponse == SentOf("framework", 500, StringResponseData(<<>>), "")

\* The response record handed to saveRequest on the success path and in the
\* catch block.
SavedOf(status, data, error) == [status |-> status, data |-> data, error |-> error]
SuccessSave(resp) == SavedOf(resp.status, NormalizedResponseData(resp), Undefined)
ErrorSave(error) ==
  SavedOf(ErrorStatus(error), StringResponseData(<<>>), Just(error.message))

\* saveRequest calls simplifyModelName(requestData.modelKey) for a truthy
\* modelKey, outside its try blocks: modelName.replace is not a function
\* unless the key is a string, and the call rejects.
SaveRequestThrows(body) == IsJsonWithModel(body) /\ ~IsString(ModelKey(body))
ReplaceTypeError == ErrorOf(FALSE, 0, "modelName.replace is not a function")

\* No event stream has been handled.
NoSseOut ==
  [done |-> FALSE, events |-> <<>>, reconstructed |-> Null,
   normalizedResponseData |-> StringResponseData(<<>>), usageInfo |-> Null]

\* The proxy after construction, before any request.
AtStart ==
  /\ requestCache = EmptyCache
  /\ pc = [r \in Requests |-> "idle"]
  /\ req = [r \in Requests |-> [body |-> NoBody]]
  /\ cacheInfo = [r \in Requests |-> InitialCacheInfo]
  /\ cacheAnalysis = [r \in Requests |-> Null]
  /\ observed = [r \in Requests |-> [atStart |-> Undefined, atClassify |-> Undefined]]
  /\ response = [r \in Requests |-> NoOutcome]
  /\ saveCalls = [r \in Requests |-> <<>>]
  /\ sent = [r \in Requests |-> <<>>]
NoPureCall ==
  /\ sseData = <<>>
  /\ sseOut = NoSseOut
  /\ differences = <<>>
  /\ sortedDiffs = Null
NoLogger == [enabled |-> FALSE, requestCount |-> 0]
QuietConfig ==
  [showHeaders |-> FALSE, showBody |-> FALSE, showResponse |-> FALSE, compact |-> FALSE]

\* The proxy created without a persistence logger (requestLogger = null).
Init ==
  /\ loggingConfig \in LoggingConfigs
  /\ requestLogger = NoLogger
  /\ AtStart
  /\ NoPureCall

\* Request r arrives and its handler runs up to the upstream call.
Receive(r, body, headers) ==
  /\ pc[r] = "idle"
  /\ \A q \in Requests : q < r => pc[q] # "idle"
  /\ LET out == RequestPhase(requestCache, loggingConfig, body, headers)
     IN /\ requestCache' = out.cache
        /\ cacheInfo' = [cacheInfo EXCEPT ![r] = out.cacheInfo]
        /\ cacheAnalysis' = [cacheAnalysis EXCEPT ![r] = out.cacheAnalysis]
        /\ observed' = [observed EXCEPT ![r] =
                          [atStart |-> IF IsJsonWithModel(body)
                                         THEN getCachedData(requestCache, ModelKey(body))
                                         ELSE Undefined,
                           atClassify |-> out.cachedData]]
  /\ req' = [req EXCEPT ![r] = [body |-> body]]
  /\ pc' = [pc EXCEPT ![r] = "awaiting"]
  /\ UNCHANGED <<loggingConfig, forwardVars, sseVars, sortVars>>

\* The upstream answers r (any status: validateStatus accepts all) and the
\* handler runs on: to its await of saveRequest when the logger is enabled
\* (saveRequest counts the request before its own first await), else to
\* res.send.
Respond(r, resp) ==
  /\ pc[r] \in {"awaiting", "aborted"}
  /\ requestCache' = ResponsePhase(requestCache, loggingConfig, req[r].body, resp.headers)
  /\ response' = [response EXCEPT ![r] = Resolved(resp)]
  /\ IF requestLogger.enabled
       THEN /\ requestLogger' = [requestLogger EXCEPT !.requestCount = @ + 1]
            /\ saveCalls' = [saveCalls EXCEPT ![r] = Append(@, SuccessSave(resp))]
            /\ pc' = [pc EXCEPT ![r] = "saving"]
            /\ UNCHANGED sent
       ELSE /\ sent' = [sent EXCEPT ![r] =
                          Append(@, SuccessResponse(resp.status, ResponseDataToSend(resp)))]
            /\ pc' = [pc EXCEPT ![r] = "responded"]
            /\ UNCHANGED <<requestLogger, saveCalls>>
  /\ UNCHANGED <<loggingConfig, req, cacheInfo, cacheAnalysis, observed, sseVars, sortVars>>

\* The catch block up to its await of saveRequest (logger enabled) or to its
\* res.status(...).json(...).
CatchBlock(r, outcome) ==
  /\ response' = [response EXCEPT ![r] = outcome]
  /\ IF requestLogger.enabled
       THEN /\ requestLogger' = [requestLogger EXCEPT !.requestCount = @ + 1]
            /\ saveCalls' = [saveCalls EXCEPT ![r] = Append(@, ErrorSave(outcome.error))]
            /\ pc' = [pc EXCEPT ![r] = "savingError"]
            /\ UNCHANGED sent
       ELSE /\ sent' = [sent EXCEPT ![r] = Append(@, ProxyErrorResponse(outcome.error))]
            /\ pc' = [pc EXCEPT ![r] = "failed"]
            /\ UNCHANGED <<requestLogger, saveCalls>>

\* The upstream call rejects and the catch block runs.
Fail(r, error) ==
  /\ pc[r] \in {"awaiting", "aborted"}
  /\ CatchBlock(r, Rejected(error))
  /\ UNCHANGED <<loggingConfig, requestCache, req, cacheInfo, cacheAnalysis, observed,
                 sseVars, sortVars>>

\* saveRequest settles on the success path: the handler sends the upstream
\* response, or, saveRequest having rejected, enters the catch block.
SaveDone(r) ==
  /\ pc[r] = "saving"
  /\ IF SaveRequestThrows(req[r].body)
       THEN CatchBlock(r, [response[r] EXCEPT !.error = ReplaceTypeError])
       ELSE /\ sent' = [sent EXCEPT ![r] =
                          Append(@, SuccessResponse(response[r].status, response[r].data))]
            /\ pc' = [pc EXCEPT ![r] = "responded"]
            /\ UNCHANGED <<requestLogger, response, saveCalls>>
  /\ UNCHANGED <<loggingConfig, requestCache, req, cacheInfo, cacheAnalysis, observed,
                 sseVars, sortVars>>

\* saveRequest settles in the catch block: the handler sends the error
\* response, or, saveRequest having rejected again, the handler's promise
\* rejects. Express 4 ignores the rejection (nothing is ever sent); Express 5
\* passes it to its error handler, which answers with status 500.
SaveErrorDone(r) ==
  /\ pc[r] = "savingError"
  /\ IF SaveRequestThrows(req[r].body)
       THEN /\ pc' = [pc EXCEPT ![r] = "rejected"]
            /\ \/ UNCHANGED sent
               \/ sent' = [sent EXCEPT ![r] = Append(@, FrameworkErrorResponse)]
       ELSE /\ sent' = [sent EXCEPT ![r] = Append(@, ProxyErrorResponse(response[r].error))]
            /\ pc' = [pc EXCEPT ![r] = "failed"]
  /\ UNCHANGED <<loggingConfig, requestCache, req, cacheInfo, cacheAnalysis, observed,
                 requestLogger, response, saveCalls, sseVars, sortVars>>

\* The client drops the connection while the upstream call is pending; the
\* handler registers no listener for it and goes on.
Abort(r) ==
  /\ pc[r] = "awaiting"
  /\ pc' = [pc EXCEPT ![r] = "aborted"]
  /\ UNCHANGED <<loggingConfig, requestCache, req, cacheInfo, cacheAnalysis, observed,
                 forwardVars, sseVars, sortVars>>

\* Upstream outcomes of the runs that exercise the cache: a JSON answer with
\* either content type, or a connection error.
OkData == ObjectResponseData(Message(Just("end_turn"), Just(FinalUsage), <<>>))
CacheRunResponses == {ResponseOf(200, h, OkData) : h \in ResponseHeaders}
ConnectionError == ErrorOf(FALSE, 0, "connect ECONNREFUSED")

Next ==
  \/ \E r \in Requests, body \in RequestBodies, headers \in InboundHeaders :
       Receive(r, body, headers)
  \/ \E r \in Requests, resp \in CacheRunResponses : Respond(r, resp)
  \/ \E r \in Requests : Fail(r, ConnectionError)
  \/ \E r \in Requests : Abort(r)

Spec == Init /\ [][Next]_vars

\* ------------------------------------------------------------ forwarding
\* Runs that exercise the forward to the upstream and the answer to the
\* caller, with or without the persistence logger.
ForwardConfigs ==
  {[showHeaders |-> TRUE, showBody |-> TRUE, showResponse |-> TRUE, compact |-> c] :
     c \in BOOLEAN}
ForwardBodies ==
  {NoBody, BodyOf("json", "m1", TRUE, <<>>), BodyOf("json", NumberModel, TRUE, <<>>)}
\* A complete event stream, and one without message_start.
FullStream ==
  <<EventLine("message_start"),
    DataLine(MessageStartData(Message(Null, Just(StartUsage), <<>>))),
    EventLine("content_block_start"), DataLine(ContentBlockStartData(0, Just(EmptyText))),
    EventLine("content_block_delta"), DataLine(ContentBlockDeltaData(0, <<"a">>)),
    EventLine("message_delta"),
    DataLine(MessageDeltaData(Just("end_turn"), Just(FinalUsage)))>>
HeadlessStream ==
  <<EventLine("content_block_delta"), DataLine(ContentBlockDeltaData(0, <<"a">>))>>
ForwardStatuses == {200, 404}
ForwardResponses ==
  {ResponseOf(st, JsonResponse, OkData) : st \in ForwardStatuses}
    \cup {ResponseOf(st, SseResponse, StringResponseData(text)) :
            st \in ForwardStatuses, text \in {FullStream, HeadlessStream}}
    \cup {ResponseOf(st, JsonResponse, StringResponseData(text)) :
            st \in ForwardStatuses,
            text \in {JsonText(Message(Null, Undefined, <<>>)), <<OtherLine>>}}
ForwardErrors ==
  {ConnectionError, ErrorOf(TRUE, 502, "Request failed with status code 502")}

InitForward ==
  /\ loggingConfig \in ForwardConfigs
  /\ requestLogger \in {NoLogger, [enabled |-> TRUE, requestCount |-> 0]}
  /\ AtStart
  /\ NoPureCall

NextForward ==
  \/ \E r \in Requests, body \in ForwardBodies : Receive(r, body, HostOnly)
  \/ \E r \in Requests, resp \in ForwardResponses : Respond(r, resp)
  \/ \E r \in Requests, error \in ForwardErrors : Fail(r, error)
  \/ \E r \in Requests : SaveDone(r)
  \/ \E r \in Requests : SaveErrorDone(r)
  \/ \E r \in Requests : Abort(r)

\* The upstream call of every forwarded request resolves or rejects, and the
\* file operations saveRequest awaits complete.
ForwardFairness ==
  \A r \in Requests :
    /\ WF_vars((\E resp \in ForwardResponses : Respond(r, resp))
                 \/ (\E error \in ForwardErrors : Fail(r, error)))
    /\ WF_vars(SaveDone(r))
    /\ WF_vars(SaveErrorDone(r))

SpecForward == InitForward /\ [][NextForward]_vars /\ ForwardFairness

\* ------------------------------------------------- event stream responses
\* The events an upstream stream is made of, each as the lines that carry it.
SseFrames ==
  { <<EventLine("message_start"),
      DataLine(MessageStartData(Message(Null, Just(StartUsage),
                                        <<Block(Just(<<"old">>))>>)))>>,
    <<EventLine("message_start")>>,
    <<EventLine("content_block_start"), DataLine(ContentBlockStartData(0, Just(<<"Hi">>)))>>,
    <<EventLine("content_block_start"), DataLine(ContentBlockStartData(1, Just(EmptyText)))>>,
    <<EventLine("content_block_delta"), DataLine(ContentBlockDeltaData(0, <<"a">>))>>,
    <<EventLine("content_block_delta"), DataLine(ContentBlockDeltaData(0, <<"b">>))>>,
    <<EventLine("content_block_delta"), DataLine(ContentBlockDeltaData(1, <<"a">>))>>,
    <<EventLine("message_delta"),
      DataLine(MessageDeltaData(Just("end_turn"), Just(FinalUsage)))>>,
    <<EventLine("message_delta"), DataLine(MessageDeltaData(Undefined, Undefined))>>,
    <<EventLine("ping"), TextDataLine, OtherLine>> }

RECURSIVE Flatten(_)
Flatten(frames) ==
  IF frames = <<>> THEN <<>> ELSE Head(frames) \o Flatten(Tail(frames))
SseStreams == {Flatten(fs) : fs \in UNION {[1..n -> SseFrames] : n \in 0..MaxEvents}}

\* An event stream arrives as response.data; nothing else is going on.
InitSse ==
  /\ sseData \in SseStreams
  /\ sseOut = NoSseOut
  /\ differences = <<>>
  /\ sortedDiffs = Null
  /\ loggingConfig = QuietConfig
  /\ requestLogger = NoLogger
  /\ AtStart

\* The handler normalises the stream: parseSSE, reconstructMessageFromSSE and
\* the choice of normalizedResponseData.
HandleSseResponse ==
  /\ ~sseOut.done
  /\ sseOut' = [done |-> TRUE] @@ NormalizeSse(sseData)
  /\ UNCHANGED <<sseData, handlerVars, sortVars>>

NextSse == HandleSseResponse

SpecSse == InitSse /\ [][NextSse]_vars

\* ------------------------------------------------- inline cache (server.js)
\* server.js keeps the cache logic inline in its handler. Its header step
\* only reads the cache (a diff.diff of the cached headers); the body step
\* classifies, deletes on a reset and sets the entry.

\* Mutant: the inline length test with > in place of >= (an equally long
\* messages list resets the cache).
InlineBodyStep_ResetOnEqual(cache, config, body, headers) ==
  IF config.showBody /\ HasBodyContent(body) /\ IsJsonWithModel(body)
    THEN LET k == ModelKey(body)
             cachedData == getCachedData(cache, k)
             shouldDiff == /\ Truthy(cachedData)
                           /\ Len(MessagesOf(body)) > Len(MessagesOf(cachedData.val.body))
             cacheBusted == Truthy(cachedData) /\ ~shouldDiff
             afterDelete == IF cacheBusted THEN MapDelete(cache, k) ELSE cache
             existingCache == getCachedData(afterDelete, k)
         IN [cache |-> MapSet(afterDelete, k,
                              Entry(body, FilteredHeaders(headers),
                                    IF Truthy(existingCache)
                                      THEN existingCache.val.responseHeaders
                                      ELSE Undefined)),
             cacheAnalysis |->
               Just(Analysis(~shouldDiff /\ ~cacheBusted, cacheBusted, shouldDiff,
                             IF shouldDiff THEN diffBody(cachedData.val.body, body)
                             ELSE Null,
                             Null)),
             cachedData |-> cachedData]
    ELSE [cache |-> cache, cacheAnalysis |-> Null, cachedData |-> Undefined]

\* server.js 195-241. The branch taken for the display is the
\* classification: diffed (cachedData && shouldDiff), cache busted, or else
\* first request. The body step computes no header diff.
InlineBodyStep(cache, config, body, headers) ==
  IF config.showBody /\ HasBodyContent(body) /\ IsJsonWithModel(body)
    THEN LET k == ModelKey(body)
             cachedData == getCachedData(cache, k)
             shouldDiff == /\ Truthy(cachedData)
                           /\ Len(MessagesOf(body)) >= Len(MessagesOf(cachedData.val.body))
             cacheBusted == Truthy(cachedData) /\ ~shouldDiff
             afterDelete == IF cacheBusted THEN MapDelete(cache, k) ELSE cache
             existingCache == getCachedData(afterDelete, k)
         IN [cache |-> MapSet(afterDelete, k,
                              Entry(body, FilteredHeaders(headers),
                                    IF Truthy(existingCache)
                                      THEN existingCache.val.responseHeaders
                                      ELSE Undefined)),
             cacheAnalysis |->
               Just(Analysis(~shouldDiff /\ ~cacheBusted, cacheBusted, shouldDiff,
                             IF shouldDiff THEN diffBody(cachedData.val.body, body)
                             ELSE Null,
                             Null)),
             cachedData |-> cachedData]
    ELSE [cache |-> cache, cacheAnalysis |-> Null, cachedData |-> Undefined]

\* if (cachedData) { cachedData.responseHeaders = response.headers;
\*                   requestCache.set(modelKey, cachedData) }
InlineRecordResponseHeaders(cache, modelKey, responseHeaders) ==
  IF Truthy(getCachedData(cache, modelKey))
    THEN MapSet(cache, modelKey,
                [cache[modelKey] EXCEPT !.responseHeaders = Just(responseHeaders)])
    ELSE cache

\* server.js 270-292 (server.js has no compact setting).
InlineResponsePhase(cache, config, body, responseHeaders) ==
  IF config.showResponse /\ config.showHeaders /\ IsJsonWithModel(body)
    THEN InlineRecordResponseHeaders(cache, ModelKey(body), responseHeaders)
    ELSE cache

\* Body display on, header display off.
InlineConfigs ==
  {[showHeaders |-> FALSE, showBody |-> TRUE, showResponse |-> sr, compact |-> FALSE] :
     sr \in BOOLEAN}

InitInline ==
  /\ loggingConfig \in InlineConfigs
  /\ requestLogger = NoLogger
  /\ AtStart
  /\ NoPureCall

\* Request r arrives at server.js and its handler runs up to the upstream call.
InlineReceive(r, body, headers) ==
  /\ pc[r] = "idle"
  /\ \A q \in Requests : q < r => pc[q] # "idle"
  /\ LET out == InlineBodyStep(requestCache, loggingConfig, body, headers)
     IN /\ requestCache' = out.cache
        /\ cacheAnalysis' = [cacheAnalysis EXCEPT ![r] = out.cacheAnalysis]
        /\ observed' = [observed EXCEPT ![r] =
                          [atStart |-> IF IsJsonWithModel(body)
                                         THEN getCachedData(requestCache, ModelKey(body))
                                         ELSE Undefined,
                           atClassify |-> out.cachedData]]
  /\ req' = [req EXCEPT ![r] = [body |-> body]]
  /\ pc' = [pc EXCEPT ![r] = "awaiting"]
  /\ UNCHANGED <<loggingConfig, cacheInfo, forwardVars, sseVars, sortVars>>

\* The upstream answers r and server.js sends the answer on.
InlineRespond(r, resp) ==
  /\ pc[r] = "awaiting"
  /\ requestCache' = InlineResponsePhase(requestCache, loggingConfig, req[r].body, resp.headers)
  /\ response' = [response EXCEPT ![r] = Resolved(resp)]
  /\ sent' = [sent EXCEPT ![r] =
                Append(@, SuccessResponse(resp.status, ResponseDataToSend(resp)))]
  /\ pc' = [pc EXCEPT ![r] = "responded"]
  /\ UNCHANGED <<loggingConfig, req, cacheInfo, cacheAnalysis, observed,
                 requestLogger, saveCalls, sseVars, sortVars>>

NextInline ==
  \/ \E r \in Requests, body \in RequestBodies, headers \in InboundHeaders :
       InlineReceive(r, body, headers)
  \/ \E r \in Requests, resp \in CacheRunResponses : InlineRespond(r, resp)

SpecInline == InitInline /\ [][NextInline]_vars

\* ------------------------------------------------- cache module interface
\* The functions request-cache.js exports, called one after the other on the
\* module's cache with the arguments the handler gives them: a key, a body
\* carrying that key, request headers without host, response headers.
BodiesFor(k) == {body \in KeyedBodies : body.model = k}
CachedHeaders == {FilteredHeaders(h) : h \in InboundHeaders}
OptionalResponseHeaders == {Null} \cup {Just(h) : h \in ResponseHeaders}

InitCacheOps ==
  /\ loggingConfig = QuietConfig
  /\ requestLogger = NoLogger
  /\ AtStart
  /\ NoPureCall

CallGetCachedData(k) ==
  /\ getCachedData(requestCache, k) \in {Undefined} \cup {Just(requestCache[j]) : j \in DOMAIN requestCache}
  /\ UNCHANGED vars

CallUpdateCache(k, body, headers, responseHeaders) ==
  /\ requestCache' = updateCache(requestCache, k, body, headers, responseHeaders)
  /\ UNCHANGED <<loggingConfig, pc, req, cacheInfo, cacheAnalysis, observed,
                 forwardVars, sseVars, sortVars>>

CallUpdateResponseHeaders(k, responseHeaders) ==
  /\ requestCache' = updateResponseHeaders(requestCache, k, responseHeaders)
  /\ UNCHANGED <<loggingConfig, pc, req, cacheInfo, cacheAnalysis, observed,
                 forwardVars, sseVars, sortVars>>

CallBustCache(k) ==
  /\ requestCache' = bustCache(requestCache, k)
  /\ UNCHANGED <<loggingConfig, pc, req, cacheInfo, cacheAnalysis, observed,
                 forwardVars, sseVars, sortVars>>

\* The caller keeps the body it asked about and the flags of the answer.
CallAnalyzeCacheStatus(k, body, headers) ==
  LET a == analyzeCacheStatus(requestCache, k, body, headers)
  IN /\ requestCache' = a.cache
     /\ req' = [req EXCEPT ![1] = [body |-> body]]
     /\ cacheInfo' = [cacheInfo EXCEPT ![1] =
                        [isFirstRequest |-> a.result.isFirstRequest,
                         cacheBusted |-> a.result.cacheBusted,
                         hasDiff |-> /\ Truthy(a.result.bodyDiff)
                                     /\ Len(a.result.bodyDiff.val) > 0]]
     /\ UNCHANGED <<loggingConfig, pc, cacheAnalysis, observed,
                    forwardVars, sseVars, sortVars>>

NextCacheOps ==
  \/ \E k \in Keys : CallGetCachedData(k)
  \/ \E k \in Keys, headers \in CachedHeaders, rh \in OptionalResponseHeaders :
       \E body \in BodiesFor(k) : CallUpdateCache(k, body, headers, rh)
  \/ \E k \in Keys, rh \in ResponseHeaders : CallUpdateResponseHeaders(k, rh)
  \/ \E k \in Keys : CallBustCache(k)
  \/ \E k \in Keys, headers \in CachedHeaders :
       \E body \in BodiesFor(k) : CallAnalyzeCacheStatus(k, body, headers)

SpecCacheOps == InitCacheOps /\ [][NextCacheOps]_vars

\* ------------------------------------------------------ stream text lines
\* Largest number of lines in a stream text handed to parseSSE.
MaxLines == 5
\* The kinds of line parseSSE tells apart: two event names, data lines whose
\* payload is a JSON object, the JSON text null, other text or blank, and a
\* line with neither prefix.
SseLines ==
  { EventLine("message_start"), EventLine("ping"),
    DataLine(MessageStartData(Message(Null, Just(StartUsage), <<>>))),
    DataLine(NullData), TextDataLine, BlankDataLine, OtherLine }
LineStreams == UNION {[1..n -> SseLines] : n \in 0..MaxLines}

InitParse ==
  /\ sseData \in LineStreams
  /\ sseOut = NoSseOut
  /\ differences = <<>>
  /\ sortedDiffs = Null
  /\ loggingConfig = QuietConfig
  /\ requestLogger = NoLogger
  /\ AtStart

NextParse == HandleSseResponse

SpecParse == InitParse /\ [][NextParse]_vars

\* ------------------------------------------------------ formatDiff inputs
\* Largest number of difference records in one formatDiff call.
MaxDiffs == 3
\* Records under "messages": an edit of the value itself, of one of its
\* fields or of one of its elements, array changes at an index, and, inside
\* element 0, a new field and an array change of its content array.
DiffIndices == {0, 2, 10}
DiffPaths ==
  {<<KeySeg("messages")>>}
    \cup {<<KeySeg("messages"), KeySeg(k)>> : k \in {"content", "role", "15"}}
    \cup {<<KeySeg("messages"), IdxSeg(i)>> : i \in DiffIndices}
DiffRecords ==
  {DiffEdit(path, Atom("a"), Atom("b")) : path \in DiffPaths}
    \cup {DiffArrayNew(<<KeySeg("messages")>>, i, Atom("b")) : i \in DiffIndices}
    \cup {DiffNew(<<KeySeg("messages"), IdxSeg(0), KeySeg("cache")>>, Atom("b")),
          DiffArrayNew(<<KeySeg("messages"), IdxSeg(0), KeySeg("content")>>, 0, Atom("b"))}
DiffLists ==
  {l \in UNION {[1..n -> DiffRecords] : n \in 1..MaxDiffs} :
     \A i, j \in 1..Len(l) : l[i] = l[j] => i = j}

InitSort ==
  /\ differences \in DiffLists
  /\ sortedDiffs = Null
  /\ sseData = <<>>
  /\ sseOut = NoSseOut
  /\ loggingConfig = QuietConfig
  /\ requestLogger = NoLogger
  /\ AtStart

\* formatDiff sorts a copy of the records; its output lists them in that order.
FormatDiff ==
  /\ sortedDiffs = Null
  /\ \E sorted \in SortOutcomes(differences) : sortedDiffs' = Just(sorted)
  /\ UNCHANGED <<differences, handlerVars, sseVars>>

NextSort == FormatDiff

SpecSort == InitSort /\ [][NextSort]_vars

\* ----------------------------------------------------------------- claims
\* Requests are numbered in the order their handlers run, so q < r means
\* that q's request phase ran before r's.
Received(r) == pc[r] # "idle"
\* A session key was derived for r.
Keyed(r) == Received(r) /\ req[r].body.kind = "json" /\ req[r].body.model \in Keys
KeyOf(r) == req[r].body.model
\* r went through the classify-then-replace step (the spec's recordRequest).
Recorded(r) == Keyed(r) /\ Truthy(cacheAnalysis[r])
Result(r) == cacheAnalysis[r].val
RecordedFor(k) == {r \in Requests : Recorded(r) /\ KeyOf(r) = k}
Before(r) == {q \in RecordedFor(KeyOf(r)) : q < r}
\* The request recorded for r's key immediately before r.
Prev(r) == CHOOSE q \in Before(r) : \A p \in Before(r) : p <= q
\* No request has been recorded for r's key after r.
IsLast(r) == \A q \in RecordedFor(KeyOf(r)) : q <= r
MsgCount(body) == IF body.hasMessages THEN Len(body.messages) ELSE 0
\* r's messages list is strictly shorter than that of the body cached for its
\* key when r is classified.
ShorterThanCached(r) ==
  /\ Recorded(r)
  /\ Truthy(observed[r].atClassify)
  /\ MsgCount(req[r].body) < MsgCount(observed[r].atClassify.val.body)
ClassifiedBusted(r) ==
  /\ Result(r).cacheBusted /\ ~Result(r).isFirstRequest /\ ~Result(r).shouldDiff
  /\ Result(r).bodyDiff.tag = "null" /\ Result(r).headerDiff.tag = "null"

\* C1 (as stated): a recorded request whose messages list is shorter than the
\* cached one is classified cache-busted with no diffs, and afterwards its
\* key has no entry (a get returns absent).
C1_BustLeavesNoEntry ==
  \A r \in Requests :
    ShorterThanCached(r) =>
      /\ ClassifiedBusted(r)
      /\ IsLast(r) => ~Truthy(getCachedData(requestCache, KeyOf(r)))

\* C1 (amended): such a request is classified cache-busted with no diffs, the
\* stale entry is discarded, and the pipeline's cache update then stores the
\* request itself: afterwards a get for the key returns an entry whose body
\* is that request's body.
C1_BustReplacesEntry ==
  \A r \in Requests :
    ShorterThanCached(r) =>
      /\ ClassifiedBusted(r)
      /\ IsLast(r) =>
           /\ Truthy(getCachedData(requestCache, KeyOf(r)))
           /\ getCachedData(requestCache, KeyOf(r)).val.body = req[r].body

C1_Witness ==
  \E r \in Requests : ShorterThanCached(r) /\ IsLast(r) /\ pc[r] = "responded"

\* C2: from an empty cache the first request recorded for key k is classified
\* first-request and creates the entry for k; the next request recorded for
\* k, if its messages list is at least as long as the first one's, is
\* classified diffed and its body diff is the diff from the first request's
\* body to its own.
C2_FirstThenDiffed ==
  \A r \in Requests :
    Recorded(r) =>
      /\ Before(r) = {} =>
           /\ Result(r).isFirstRequest
           /\ Truthy(getCachedData(requestCache, KeyOf(r)))
      /\ (/\ Before(r) # {}
          /\ Before(Prev(r)) = {}
          /\ MsgCount(req[r].body) >= MsgCount(req[Prev(r)].body)) =>
           /\ Result(r).shouldDiff
           /\ Result(r).bodyDiff = diffBody(req[Prev(r)].body, req[r].body)

C2_Witness ==
  \E r \in Requests :
    /\ Recorded(r) /\ Before(r) # {}
    /\ Result(Prev(r)).isFirstRequest
    /\ Result(r).shouldDiff
    /\ Truthy(Result(r).bodyDiff)

\* C3: every analyzeCacheStatus result, in every reachable cache state and for
\* every key, body and header set, has exactly one of isFirstRequest,
\* cacheBusted and shouldDiff true, and null bodyDiff and headerDiff whenever
\* shouldDiff is false.
WellFormedAnalysis(res) ==
  /\ \/ res.isFirstRequest /\ ~res.cacheBusted /\ ~res.shouldDiff
     \/ ~res.isFirstRequest /\ res.cacheBusted /\ ~res.shouldDiff
     \/ ~res.isFirstRequest /\ ~res.cacheBusted /\ res.shouldDiff
  /\ ~res.shouldDiff => res.bodyDiff.tag = "null" /\ res.headerDiff.tag = "null"

C3_ExactlyOneClassification ==
  /\ \A k \in Keys, body \in KeyedBodies, headers \in InboundHeaders :
       WellFormedAnalysis(
         analyzeCacheStatus(requestCache, k, body, FilteredHeaders(headers)).result)
  /\ \A r \in Requests : Truthy(cacheAnalysis[r]) => WellFormedAnalysis(Result(r))

C3_Witness ==
  \E r1, r2 \in Requests :
    /\ Recorded(r1) /\ Result(r1).isFirstRequest
    /\ Recorded(r2) /\ Result(r2).cacheBusted

\* C4: with requests on the same key in flight together, at most one request
\* that found no entry for the key when its handler started is classified
\* first-request, and every request classified diffed is diffed against the
\* body written by the request recorded immediately before it.
C4_ClassifyReplaceAtomic ==
  /\ \A r1, r2 \in Requests :
       (/\ r1 # r2 /\ Recorded(r1) /\ Recorded(r2) /\ KeyOf(r1) = KeyOf(r2)
        /\ Result(r1).isFirstRequest /\ Result(r2).isFirstRequest)
         => Truthy(observed[r1].atStart) \/ Truthy(observed[r2].atStart)
  /\ \A r \in Requests :
       (Recorded(r) /\ Result(r).shouldDiff) =>
         /\ Before(r) # {}
         /\ Result(r).bodyDiff = diffBody(req[Prev(r)].body, req[r].body)

C4_Witness ==
  \E r1, r2 \in Requests :
    /\ r1 < r2 /\ Recorded(r1) /\ Recorded(r2) /\ KeyOf(r1) = KeyOf(r2)
    /\ pc[r1] = "awaiting" /\ pc[r2] = "awaiting"
    /\ Result(r2).shouldDiff /\ Truthy(Result(r2).bodyDiff)

\* C5 (as stated): while a keyed request that was aborted before the upstream
\* responded is the only request received for its key, the cache entry for
\* that key is as it was before the request arrived.
C5_AbortAppliesNoCacheUpdate ==
  \A r \in Requests :
    (/\ pc[r] = "aborted" /\ Keyed(r)
     /\ \A q \in Requests \ {r} : ~(Keyed(q) /\ KeyOf(q) = KeyOf(r)))
      => /\ Truthy(getCachedData(requestCache, KeyOf(r))) = Truthy(observed[r].atStart)
         /\ Truthy(observed[r].atStart) =>
              getCachedData(requestCache, KeyOf(r)).val = observed[r].atStart.val

C7_UpdateKeepsResponseHeaders ==
  [][\A r \in Requests :
       (/\ pc[r] = "idle" /\ pc'[r] # "idle"
        /\ Truthy(cacheAnalysis'[r]) /\ cacheAnalysis'[r].val.shouldDiff)
         => LET k == req'[r].body.model
            IN /\ Truthy(getCachedData(requestCache, k))
               /\ Truthy(getCachedData(requestCache', k))
               /\ getCachedData(requestCache', k).val.body = req'[r].body
               /\ getCachedData(requestCache', k).val.responseHeaders
                    = getCachedData(requestCache, k).val.responseHeaders]_vars

C7_Witness ==
  \E r \in Requests :
    /\ Recorded(r) /\ Result(r).shouldDiff /\ IsLast(r)
    /\ Truthy(observed[r].atClassify.val.responseHeaders)
    /\ requestCache[KeyOf(r)].body = req[r].body
    /\ requestCache[KeyOf(r)].body # observed[r].atClassify.val.body
    /\ Truthy(requestCache[KeyOf(r)].responseHeaders)

\* C8: in every reachable cache state, updateResponseHeaders(key, h) changes
\* nothing when there is no entry for key (it creates none); when there is
\* one it sets that entry's responseHeaders to h and leaves the entry's body
\* and request headers, and every other key's entry, unchanged.
C8_ResponseHeadersFrame ==
  \A k \in Keys, h \in ResponseHeaders :
    LET after == updateResponseHeaders(requestCache, k, h)
    IN /\ DOMAIN after = DOMAIN requestCache
       /\ \A j \in DOMAIN requestCache \ {k} : after[j] = requestCache[j]
       /\ k \in DOMAIN requestCache =>
            /\ after[k].responseHeaders = Just(h)
            /\ after[k].body = requestCache[k].body
            /\ after[k].headers = requestCache[k].headers

C8_Witness ==
  \E k1, k2 \in Keys :
    /\ k1 # k2
    /\ Truthy(getCachedData(requestCache, k1))
    /\ Truthy(getCachedData(requestCache, k2))
    /\ requestCache[k1].responseHeaders = Just(SseResponse)
    /\ \E r \in Requests : Keyed(r) /\ KeyOf(r) = k1 /\ pc[r] = "responded"

\* C9: a request from which no session key is derived (no body, a body that
\* is not JSON, or JSON without a truthy model) leaves the whole cache
\* unchanged in every step of its processing, the response included, and is
\* never classified first-request, cache-busted or diffed.
NoKeyDerived(body) == body.kind # "json" \/ body.model = NoModel

C9_UnkeyedPassThrough ==
  [][\A r \in Requests :
       (pc'[r] # pc[r] /\ NoKeyDerived(req'[r].body))
         => /\ requestCache' = requestCache
            /\ cacheInfo'[r] = InitialCacheInfo
            /\ ~Truthy(cacheAnalysis'[r])]_vars

C9_Witness ==
  \E r \in Requests :
    /\ pc[r] = "responded" /\ req[r].body.kind = "json" /\ NoKeyDerived(req[r].body)
    /\ loggingConfig.showBody /\ loggingConfig.showHeaders /\ loggingConfig.showResponse
    /\ ~loggingConfig.compact
    /\ DOMAIN requestCache # {}

\* C10 (as stated): no cached request header set contains a host or a
\* content-length header.
C10_NoHostNoContentLength ==
  \A k \in DOMAIN requestCache :
    /\ "host" \notin DOMAIN requestCache[k].headers
    /\ "content-length" \notin DOMAIN requestCache[k].headers

\* C10 (amended): no cached request header set contains a host header, so
\* host never appears in a header diff; content-length is cached as received.
HeaderDiffNames(r) ==
  IF Truthy(cacheAnalysis[r]) /\ Truthy(Result(r).headerDiff)
    THEN {Result(r).headerDiff.val[i].path[1].str :
            i \in 1..Len(Result(r).headerDiff.val)}
    ELSE {}

C10_NoHost ==
  /\ \A k \in DOMAIN requestCache : "host" \notin DOMAIN requestCache[k].headers
  /\ \A r \in Requests : "host" \notin HeaderDiffNames(r)

C10_Witness ==
  \E r \in Requests :
    /\ Recorded(r)
    /\ "content-length" \in HeaderDiffNames(r)
    /\ "content-length" \in DOMAIN requestCache[KeyOf(r)].headers

\* C11: for a stream whose events are message_start, content_block_start
\* at index i, any number of content_block_delta events for index i and
\* then message_delta, the reconstructed message's block i has the block's
\* initial text followed by the delta texts in stream order, its stop_reason
\* is the one message_delta gives, and its usage holds the keys (and values)
\* message_delta gives.
IsStart(e) == e.event = "message_start" /\ Truthy(e.data.message)
IsBlockStart(e) == e.event = "content_block_start" /\ Truthy(e.data.content_block)
IsTextDelta(e) ==
  e.event = "content_block_delta" /\ Truthy(e.data.delta) /\ Truthy(e.data.delta.val.text)
IsMessageDelta(e) == e.event = "message_delta" /\ Truthy(e.data.delta)
OneBlockStream(events) ==
  /\ Len(events) >= 3
  /\ IsStart(events[1])
  /\ IsBlockStart(events[2])
  /\ \A j \in 3..(Len(events) - 1) :
       IsTextDelta(events[j]) /\ events[j].data.index = events[2].data.index
  /\ IsMessageDelta(events[Len(events)])
\* The texts of events from..to, one after the other.
RECURSIVE DeltaTexts(_, _, _)
DeltaTexts(events, from, to) ==
  IF from > to THEN EmptyText
  ELSE events[from].data.delta.val.text.val \o DeltaTexts(events, from + 1, to)

C11_OneBlockReconstruction ==
  (sseOut.done /\ OneBlockStream(sseOut.events)) =>
    LET events == sseOut.events
        i == events[2].data.index
        initial == events[2].data.content_block.val.text
        last == events[Len(events)].data
    IN /\ Truthy(sseOut.reconstructed)
       /\ Len(sseOut.reconstructed.val.content) = i + 1
       /\ sseOut.reconstructed.val.content[i + 1].present
       /\ sseOut.reconstructed.val.content[i + 1].text =
            Just((IF Truthy(initial) THEN initial.val ELSE EmptyText)
                   \o DeltaTexts(events, 3, Len(events) - 1))
       /\ Truthy(last.delta.val.stop_reason) =>
            sseOut.reconstructed.val.stop_reason = last.delta.val.stop_reason
       /\ Truthy(last.usage) =>
            /\ Truthy(sseOut.reconstructed.val.usage)
            /\ \A k \in DOMAIN last.usage.val :
                 /\ k \in DOMAIN sseOut.reconstructed.val.usage.val
                 /\ sseOut.reconstructed.val.usage.val[k] = last.usage.val[k]

C11_Witness ==
  /\ sseOut.done /\ OneBlockStream(sseOut.events)
  /\ Len(sseOut.events) = 5
  /\ sseOut.events[3].data.delta.val.text.val # sseOut.events[4].data.delta.val.text.val
  /\ sseOut.reconstructed.val.content[1].text = Just(<<"Hi", "a", "b">>)
  /\ sseOut.reconstructed.val.stop_reason = Just("end_turn")
  /\ sseOut.reconstructed.val.usage.val["output_tokens"] = 5

\* C12: a stream with no message_start event that carries a message
\* reconstructs to null whatever other events it has, and the handler then
\* keeps the raw stream text as the response data.
NoMessageStart(events) == \A j \in 1..Len(events) : ~IsStart(events[j])

C12_NoStartGivesRawText ==
  (sseOut.done /\ NoMessageStart(sseOut.events)) =>
    /\ ~Truthy(sseOut.reconstructed)
    /\ sseOut.normalizedResponseData = StringResponseData(sseData)

C12_Witness ==
  /\ sseOut.done /\ NoMessageStart(sseOut.events)
  /\ \E j \in 1..Len(sseOut.events) : sseOut.events[j].event = "message_start"
  /\ \E j \in 1..Len(sseOut.events) : IsBlockStart(sseOut.events[j])
  /\ \E j \in 1..Len(sseOut.events) : IsTextDelta(sseOut.events[j])
  /\ \E j \in 1..Len(sseOut.events) : IsMessageDelta(sseOut.events[j])
  /\ sseOut.normalizedResponseData.text = sseData

\* C13 (as stated): in formatDiff's order, when two records first differ at
\* a segment that is a number in one and a string in the other, the record
\* with the string segment comes first (path messages.role before path
\* messages[0]).
PositionOf(rec) == CHOOSE i \in 1..Len(sortedDiffs.val) : sortedDiffs.val[i] = rec
C13_NonNumericSegmentFirst ==
  Truthy(sortedDiffs) =>
    \A a, b \in {differences[i] : i \in 1..Len(differences)} :
      LET i == FirstDifference(a.path, b.path)
      IN (i # 0 /\ ~a.path[i].isNum /\ b.path[i].isNum) => PositionOf(a) < PositionOf(b)

\* C14 (as stated): every request whose handler has forwarded it eventually
\* has exactly one response, given that the upstream call resolves or
\* rejects, and no request is ever sent two.
C14_ExactlyOneResponse ==
  /\ [](\A r \in Requests : Len(sent[r]) <= 1)
  /\ \A r \in Requests : (pc[r] = "awaiting") ~> (Len(sent[r]) = 1)

\* C15 (as stated): once the handler of a request is through, a request
\* whose upstream call rejected has been answered with the error's upstream
\* status if it has one, else 500, and with the error's message, and the
\* logger, if enabled, was given the same status and message; a request
\* whose upstream call resolved, whatever the status, has been answered by
\* the success path with that status.
HandlerThrough(r) == pc[r] \in {"responded", "failed", "rejected"}
C15_FailureOutcome ==
  \A r \in Requests :
    HandlerThrough(r) =>
      /\ response[r].kind = "rejected" =>
           LET e == response[r].error
               status == IF e.hasResponse THEN e.status ELSE 500
           IN /\ Len(sent[r]) = 1
              /\ sent[r][1].via = "catch"
              /\ sent[r][1].status = status
              /\ sent[r][1].message = e.message
              /\ requestLogger.enabled =>
                   /\ Len(saveCalls[r]) = 1
                   /\ saveCalls[r][1].status = status
                   /\ saveCalls[r][1].error = Just(e.message)
      /\ response[r].kind = "resolved" =>
           /\ Len(sent[r]) = 1
           /\ sent[r][1].via = "send"
           /\ sent[r][1].status = response[r].status

\* C15 holds for every request for which saveRequest does not reject.
C15_OutcomeWhenSaveSettles ==
  \A r \in Requests :
    (HandlerThrough(r) /\ ~SaveRequestThrows(req[r].body)) =>
      /\ response[r].kind = "rejected" =>
           /\ sent[r] = <<SentOf("catch",
                                 IF response[r].error.hasResponse
                                   THEN response[r].error.status ELSE 500,
                                 StringResponseData(<<>>), response[r].error.message)>>
      /\ response[r].kind = "resolved" =>
           /\ Len(sent[r]) = 1
           /\ sent[r][1].via = "send"
           /\ sent[r][1].status = response[r].status

C16_HandlerSendsDataAsReceived ==
  \A r \in Requests :
    \A i \in 1..Len(sent[r]) :
      sent[r][i].via = "send" =>
        /\ response[r].kind = "resolved"
        /\ sent[r][i].status = response[r].status
        /\ sent[r][i].data = response[r].data

\* C17: a request recorded under a key whose cached body and request
\* headers equal its own is classified diffed, its body diff and its header
\* diff hold no record (diff(X, X) is empty), and its hasDiff is false.
NoRecords(d) == ~Truthy(d) \/ Len(d.val) = 0
SameAsCached(r) ==
  /\ Recorded(r) /\ IsLast(r)
  /\ Truthy(observed[r].atClassify)
  /\ observed[r].atClassify.val.body = req[r].body
  /\ observed[r].atClassify.val.headers = requestCache[KeyOf(r)].headers

C17_ResendIsDiffedUnchanged ==
  /\ \A r \in Requests :
       SameAsCached(r) =>
         /\ Result(r).shouldDiff /\ ~Result(r).isFirstRequest /\ ~Result(r).cacheBusted
         /\ NoRecords(Result(r).bodyDiff)
         /\ NoRecords(Result(r).headerDiff)
         /\ ~cacheInfo[r].hasDiff
  /\ \A k \in DOMAIN requestCache :
       /\ NoRecords(diffBody(requestCache[k].body, requestCache[k].body))
       /\ NoRecords(diffHeaders(requestCache[k].headers, requestCache[k].headers))

C17_Witness ==
  \E r \in Requests :
    /\ SameAsCached(r)
    /\ MsgCount(req[r].body) > 0
    /\ "content-length" \in DOMAIN requestCache[KeyOf(r)].headers
    /\ pc[r] = "responded"

\* C18: analyzeCacheStatus classifies a request cache-busted exactly when an
\* entry exists for its key and its messages list (a missing field counting
\* as empty) is strictly shorter than the cached body's; with an entry and an
\* equal or greater length it classifies diffed, whatever the messages are;
\* and it removes an entry only when it classifies cache-busted (then the
\* key's entry, and no other).
ShorterThan(body, cache, k) ==
  k \in DOMAIN cache /\ MsgCount(body) < MsgCount(cache[k].body)
AnalysisFollowsLengths(cache, body, headers) ==
  LET k == ModelKey(body)
      a == analyzeCacheStatus(cache, k, body, FilteredHeaders(headers))
  IN /\ a.result.cacheBusted <=> ShorterThan(body, cache, k)
     /\ (k \in DOMAIN cache /\ ~ShorterThan(body, cache, k)) =>
          a.result.shouldDiff /\ ~a.result.cacheBusted /\ ~a.result.isFirstRequest
     /\ a.result.cacheBusted => a.cache = bustCache(cache, k) /\ k \notin DOMAIN a.cache
     /\ ~a.result.cacheBusted => a.cache = cache

C18_BustedIffShorter ==
  /\ \A body \in KeyedBodies, headers \in InboundHeaders :
       AnalysisFollowsLengths(requestCache, body, headers)
  /\ \A r \in Requests :
       Recorded(r) =>
         /\ Result(r).cacheBusted <=> ShorterThanCached(r)
         /\ (Truthy(observed[r].atClassify) /\ ~ShorterThanCached(r)) =>
              Result(r).shouldDiff

\* A request as long as the cached one, with entirely different messages,
\* was classified diffed and its diff reports the change.
C18_Witness ==
  \E r \in Requests :
    /\ Recorded(r) /\ Truthy(observed[r].atClassify)
    /\ MsgCount(req[r].body) = MsgCount(observed[r].atClassify.val.body)
    /\ MsgCount(req[r].body) > 0
    /\ req[r].body.messages[1] # observed[r].atClassify.val.body.messages[1]
    /\ Result(r).shouldDiff /\ cacheInfo[r].hasDiff
    /\ pc[r] = "responded"

\* C19: the request phase of a keyed request with body display enabled
\* leaves, under the request's key, an entry whose body is the request's body
\* and whose request headers are the request's headers (without host),
\* whatever the classification; and no later step of any handler other than
\* such a request phase changes an entry's body or request headers, whether
\* the upstream answers, fails or the caller goes away.
EntryHolds(cache, body, headers) ==
  /\ ModelKey(body) \in DOMAIN cache
  /\ cache[ModelKey(body)].body = body
  /\ cache[ModelKey(body)].headers = FilteredHeaders(headers)
ReceiveStep == \E r \in Requests : pc[r] = "idle" /\ pc'[r] # "idle"

C19_EntryHoldsLastRequest ==
  /\ [][\A r \in Requests, body \in KeyedBodies, headers \in InboundHeaders :
          (Receive(r, body, headers) /\ loggingConfig.showBody) =>
             EntryHolds(requestCache', body, headers)]_vars
  /\ [][~ReceiveStep =>
          \A k \in DOMAIN requestCache :
            /\ k \in DOMAIN requestCache'
            /\ requestCache'[k].body = requestCache[k].body
            /\ requestCache'[k].headers = requestCache[k].headers]_vars
  /\ [](\A r \in Requests :
          (Recorded(r) /\ IsLast(r)) =>
             /\ KeyOf(r) \in DOMAIN requestCache
             /\ requestCache[KeyOf(r)].body = req[r].body)

\* A request classified cache-busted whose forward failed, with its body and
\* its own headers cached in place of the longer request's.
C19_Witness ==
  \E r \in Requests :
    /\ Recorded(r) /\ IsLast(r) /\ Result(r).cacheBusted
    /\ pc[r] = "failed"
    /\ requestCache[KeyOf(r)].body = req[r].body
    /\ requestCache[KeyOf(r)].headers # observed[r].atClassify.val.headers

\* C20: from every cache state a run reaches, the request phase of a keyed
\* request gives the same body classification and leaves the same cache with
\* header display enabled as with header display disabled (all other
\* settings equal).
WithShowHeaders(config, on) == [config EXCEPT !.showHeaders = on]
C20_HeaderDisplayIrrelevant ==
  \A body \in KeyedBodies, headers \in InboundHeaders :
    LET shown == RequestPhase(requestCache, WithShowHeaders(loggingConfig, TRUE),
                              body, headers)
        hidden == RequestPhase(requestCache, WithShowHeaders(loggingConfig, FALSE),
                               body, headers)
    IN /\ shown.cacheAnalysis = hidden.cacheAnalysis
       /\ shown.cacheInfo = hidden.cacheInfo
       /\ shown.cache = hidden.cache

\* C20, the part that holds: the cache left by the request phase does not
\* depend on header display.
C20_SameCacheEitherWay ==
  \A body \in KeyedBodies, headers \in InboundHeaders :
    RequestPhase(requestCache, WithShowHeaders(loggingConfig, TRUE), body, headers).cache
      = RequestPhase(requestCache, WithShowHeaders(loggingConfig, FALSE), body, headers).cache

\* analyzeCacheStatus classified r cache-busted, in the header step or in
\* the body step: r is keyed, a display step that classifies is enabled, and
\* the entry found when r arrived had a longer messages list.
BustedOnArrival(r) ==
  /\ Keyed(r)
  /\ loggingConfig.showBody \/ (loggingConfig.showHeaders /\ ~loggingConfig.compact)
  /\ Truthy(observed[r].atStart)
  /\ MsgCount(req[r].body) < MsgCount(observed[r].atStart.val.body)
\* No request with r's key arrived after r.
LastForKey(r) == \A q \in Requests : (Keyed(q) /\ KeyOf(q) = KeyOf(r)) => q <= r
\* No upstream response to r has reached the handler.
Unanswered(r) == pc[r] \in {"awaiting", "aborted", "failed"}

\* C21: after a request was classified cache-busted, and as long as no
\* response to it or to a later request for its key has been recorded, the
\* key's entry holds no response headers (none of a response to a request
\* recorded before the bust).
C21_NoStaleResponseHeaders ==
  \A r \in Requests :
    (BustedOnArrival(r) /\ LastForKey(r) /\ Unanswered(r)) =>
      \/ KeyOf(r) \notin DOMAIN requestCache
      \/ ~Truthy(requestCache[KeyOf(r)].responseHeaders)

\* C21, the part that holds: the request phase of a busting request leaves
\* no response headers under its key.
C21_AbsentRightAfterBust ==
  [][\A r \in Requests :
       (pc[r] = "idle" /\ pc'[r] = "awaiting" /\ BustedOnArrival(r)') =>
          \/ KeyOf(r)' \notin DOMAIN requestCache'
          \/ ~Truthy(requestCache'[KeyOf(r)'].responseHeaders)]_vars

\* C22: in formatDiff's order a record whose path first differs from
\* another's at two numeric segments precedes it when its segment is the
\* smaller number (2 before 10), and array-change records with the same path
\* appear in ascending order of their index.
SortedInput == {differences[i] : i \in 1..Len(differences)}
NumericallyBefore(a, b) ==
  LET i == FirstDifference(a.path, b.path)
  IN i # 0 /\ a.path[i].isNum /\ b.path[i].isNum /\ a.path[i].num < b.path[i].num
SamePathLowerIndex(a, b) ==
  a.kind = "A" /\ b.kind = "A" /\ a.path = b.path /\ a.index < b.index

C22_ComparatorNumericAndIndex ==
  /\ \A a, b \in SortedInput :
       (NumericallyBefore(a, b) \/ SamePathLowerIndex(a, b)) => compareDiffs(a, b) < 0
  /\ (Truthy(sortedDiffs) /\ ConsistentComparator(differences)) =>
       \A a, b \in SortedInput :
         (NumericallyBefore(a, b) \/ SamePathLowerIndex(a, b)) =>
            PositionOf(a) < PositionOf(b)

\* C23: the comparator is a consistent ordering on the records of a call
\* (antisymmetric, transitive), and for records with pairwise distinct path
\* and index the rendered order is the same for every order in which the
\* records are handed to formatDiff.
PathAndIndex(d) == <<d.path, IF d.kind = "A" THEN d.index ELSE -1>>
DistinctPathAndIndex(l) ==
  \A i, j \in 1..Len(l) : PathAndIndex(l[i]) = PathAndIndex(l[j]) => i = j
Reordered(l) == {[i \in 1..Len(l) |-> l[f[i]]] : f \in IndexOrders(Len(l))}

C23_ConsistentOrdering ==
  /\ ConsistentComparator(differences)
  /\ (Truthy(sortedDiffs) /\ DistinctPathAndIndex(differences)) =>
       \A l \in Reordered(differences) : SortOutcomes(l) = {sortedDiffs.val}

\* C23, the part that holds: the comparator is antisymmetric on every pair
\* of records.
C23_Antisymmetric ==
  \A a, b \in SortedInput : Sign(compareDiffs(a, b)) = -Sign(compareDiffs(b, a))

\* The positions of the `event: ` lines of a stream text, and the k-th of them.
EventLinesOf(lines) == {i \in 1..Len(lines) : lines[i].type = "event"}
EventLineAt(lines, k) ==
  CHOOSE i \in EventLinesOf(lines) :
    Cardinality({j \in EventLinesOf(lines) : j <= i}) = k
\* The lines from the first `event: ` line on.
FromFirstEvent(lines) ==
  IF EventLinesOf(lines) = {} THEN <<>>
  ELSE SubSeq(lines, EventLineAt(lines, 1), Len(lines))

\* C24: parseSSE returns one event per `event: ` line, in the order of those
\* lines, each named by its line; this holds for every prefix of the text
\* taken as the whole input (an event is in the output once the next
\* `event: ` line or the end of input is reached); and the lines before the
\* first `event: ` line change nothing in the output.
C24_OneEventPerEventLine ==
  sseOut.done =>
    /\ Len(sseOut.events) = Cardinality(EventLinesOf(sseData))
    /\ \A k \in 1..Len(sseOut.events) :
         sseOut.events[k].event = sseData[EventLineAt(sseData, k)].name
    /\ \A n \in 0..Len(sseData) :
         LET prefix == SubSeq(sseData, 1, n)
         IN /\ Len(parseSSE(prefix)) = Cardinality(EventLinesOf(prefix))
            /\ \A k \in 1..Len(parseSSE(prefix)) :
                 parseSSE(prefix)[k].event = sseOut.events[k].event
    /\ sseOut.events = parseSSE(FromFirstEvent(sseData))

\* Two events with different names, the first after a data line and another
\* line that belong to no event.
C24_Witness ==
  /\ sseOut.done
  /\ Len(sseData) = 5
  /\ sseData[1].type = "data" /\ sseData[1].payload = "json"
  /\ sseData[2].type = "other"
  /\ sseData[3] = EventLine("ping")
  /\ sseData[5] = EventLine("message_start")
  /\ Len(sseOut.events) = 2
  /\ sseOut.events[1].data = NullData

\* The data lines of the k-th event: those after its `event: ` line and
\* before the next one (or the end of the text) whose payload is not blank.
NextEventLine(lines, k) ==
  IF k < Cardinality(EventLinesOf(lines)) THEN EventLineAt(lines, k + 1)
  ELSE Len(lines) + 1
PayloadLinesOf(lines, k) ==
  {i \in (EventLineAt(lines, k) + 1)..(NextEventLine(lines, k) - 1) :
     lines[i].type = "data" /\ lines[i].payload # "blank"}
LastOf(S) == CHOOSE i \in S : \A j \in S : j <= i

\* C25: the data of each event is the payload of the last non-blank `data: `
\* line between its `event: ` line and the next one, and null when there is
\* none (no data line, or blank ones only); so a data line never reaches an
\* earlier or a later event, and a blank one changes nothing.
C25_DataBelongsToCurrentEvent ==
  sseOut.done =>
    \A k \in 1..Len(sseOut.events) :
      sseOut.events[k].data =
        IF PayloadLinesOf(sseData, k) = {} THEN NullData
        ELSE sseData[LastOf(PayloadLinesOf(sseData, k))].value

\* An event with a payload followed by a blank data line keeps the payload,
\* while the event after it, with a blank data line only, has null data.
C25_Witness ==
  /\ sseOut.done
  /\ Len(sseData) = 5
  /\ sseData[1].type = "event"
  /\ sseData[2].type = "data" /\ sseData[2].payload = "json" /\ sseData[2].value # NullData
  /\ sseData[3] = BlankDataLine
  /\ sseData[4].type = "event"
  /\ sseData[5] = BlankDataLine
  /\ Len(sseOut.events) = 2
  /\ sseOut.events[1].data = sseData[2].value
  /\ sseOut.events[2].data = NullData

\* The result of reconstructMessageFromSSE on the first n events.
ReconstructedAfter(events, n) == reconstructMessageFromSSE(SubSeq(events, 1, n))
UsageAt(message, k) ==
  IF Truthy(message.usage) /\ k \in DOMAIN message.usage.val
    THEN Just(message.usage.val[k]) ELSE Undefined

\* C26: a message_delta event with a delta that comes after message_start
\* sets the result's stop_reason to the delta's when the delta has one and
\* leaves it otherwise; and for every usage key the result then has the
\* delta's value when the delta's usage has the key, and its previous value
\* (or still no value) when it has not.
C26_MessageDeltaMerges ==
  sseOut.done =>
    \A n \in 1..Len(sseOut.events) :
      LET e == sseOut.events[n]
          before == ReconstructedAfter(sseOut.events, n - 1)
          after == ReconstructedAfter(sseOut.events, n)
      IN (IsMessageDelta(e) /\ Truthy(before)) =>
           /\ Truthy(after)
           /\ after.val.stop_reason =
                IF Truthy(e.data.delta.val.stop_reason) THEN e.data.delta.val.stop_reason
                ELSE before.val.stop_reason
           /\ \A k \in UsageKeys :
                UsageAt(after.val, k) =
                  IF Truthy(e.data.usage) /\ k \in DOMAIN e.data.usage.val
                    THEN Just(e.data.usage.val[k])
                    ELSE UsageAt(before.val, k)

\* message_start, a delta with stop_reason and usage, then a delta with
\* neither: the stop_reason and the merged usage are still there.
C26_Witness ==
  /\ sseOut.done
  /\ Len(sseOut.events) = 3
  /\ IsStart(sseOut.events[1])
  /\ IsMessageDelta(sseOut.events[2]) /\ Truthy(sseOut.events[2].data.usage)
  /\ IsMessageDelta(sseOut.events[3]) /\ ~Truthy(sseOut.events[3].data.delta.val.stop_reason)
  /\ sseOut.reconstructed.val.stop_reason = Just("end_turn")
  /\ sseOut.reconstructed.val.usage = Just(("input_tokens" :> 1) @@ ("output_tokens" :> 5))

\* The events without the n-th.
RemoveAt(events, n) == SubSeq(events, 1, n - 1) \o SubSeq(events, n + 1, Len(events))
\* The loop of reconstructMessageFromSSE entered with a message already
\* there, so that its result shows contentBlocks whether or not the events
\* hold a message_start.
BlocksOf(events) ==
  reconstructLoop(events, 1, Just(Message(Null, Undefined, <<>>)), <<>>).val.content
\* The n-th event is a text delta for an index no earlier event started.
OrphanDelta(events, n) ==
  /\ IsTextDelta(events[n])
  /\ events[n].data.delta.val.text.val # EmptyText
  /\ \A j \in 1..(n - 1) :
       ~(IsBlockStart(events[j]) /\ events[j].data.index = events[n].data.index)

\* C27: a content_block_delta for an index that no content_block_start has
\* started yet is a no-op: the content blocks before and after it are the
\* same (no block created, none changed), and the whole reconstruction is
\* what it is without that event, also when the block is started later.
C27_DeltaBeforeStartIsNoOp ==
  sseOut.done =>
    \A n \in 1..Len(sseOut.events) :
      OrphanDelta(sseOut.events, n) =>
        /\ BlocksOf(SubSeq(sseOut.events, 1, n)) = BlocksOf(SubSeq(sseOut.events, 1, n - 1))
        /\ BlocksOf(sseOut.events) = BlocksOf(RemoveAt(sseOut.events, n))
        /\ sseOut.reconstructed = reconstructMessageFromSSE(RemoveAt(sseOut.events, n))

\* A delta for index 0, then the start of block 0, then a second delta: the
\* block's text is the start's text and the second delta's only.
C27_Witness ==
  /\ sseOut.done
  /\ Len(sseOut.events) = 4
  /\ IsStart(sseOut.events[1])
  /\ OrphanDelta(sseOut.events, 2) /\ sseOut.events[2].data.delta.val.text.val = <<"a">>
  /\ IsBlockStart(sseOut.events[3]) /\ sseOut.events[3].data.index = 0
  /\ IsTextDelta(sseOut.events[4]) /\ sseOut.events[4].data.index = 0
  /\ sseOut.events[4].data.delta.val.text.val = <<"b">>
  /\ sseOut.reconstructed.val.content = <<Block(Just(<<"Hi", "b">>))>>

\* The indices for which a content_block_start was seen, and for such an
\* index the last event that started it.
StartedIndices(events) ==
  {events[n].data.index : n \in {j \in 1..Len(events) : IsBlockStart(events[j])}}
LastStartOf(events, i) ==
  LastOf({n \in 1..Len(events) : IsBlockStart(events[n]) /\ events[n].data.index = i})
MaxOfSet(S) == CHOOSE i \in S : \A j \in S : j <= i
\* The texts of the deltas for index i among the events from..to.
RECURSIVE TextsFor(_, _, _, _)
TextsFor(events, from, to, i) ==
  IF from > to THEN <<>>
  ELSE (IF /\ IsTextDelta(events[from]) /\ events[from].data.index = i
           /\ events[from].data.delta.val.text.val # EmptyText
          THEN <<events[from].data.delta.val.text.val>> ELSE <<>>)
         \o TextsFor(events, from + 1, to, i)
\* The block the code holds for a started index i: a copy of the block of its
\* last content_block_start, with the later deltas for i appended to its text.
ExpectedBlock(events, i) ==
  LET n == LastStartOf(events, i)
      initial == events[n].data.content_block.val
      texts == TextsFor(events, n + 1, Len(events), i)
  IN IF texts = <<>> THEN initial
     ELSE Block(Just((IF Truthy(initial.text) THEN initial.text.val ELSE EmptyText)
                       \o Flatten(texts)))

\* C28: a returned message's content has, for every index a
\* content_block_start named, that block at the index's position, whatever
\* the order of the starts, and a gap at every other position up to the
\* largest index; with no block started the content is empty, whatever
\* content message_start carried.
C28_ContentInIndexOrder ==
  (sseOut.done /\ Truthy(sseOut.reconstructed)) =>
    LET started == StartedIndices(sseOut.events)
        content == sseOut.reconstructed.val.content
    IN IF started = {} THEN content = <<>>
       ELSE /\ Len(content) = MaxOfSet(started) + 1
            /\ \A i \in 0..MaxOfSet(started) :
                 content[i + 1] = IF i \in started THEN ExpectedBlock(sseOut.events, i)
                                  ELSE Hole

\* Block 1 started before block 0 and both in place, after a message_start
\* whose payload carried content of its own.
C28_Witness ==
  /\ sseOut.done /\ Truthy(sseOut.reconstructed)
  /\ Len(sseOut.events) = 4
  /\ IsStart(sseOut.events[1])
  /\ sseOut.events[1].data.message.val.content # <<>>
  /\ IsBlockStart(sseOut.events[2]) /\ sseOut.events[2].data.index = 1
  /\ IsBlockStart(sseOut.events[3]) /\ sseOut.events[3].data.index = 0
  /\ IsTextDelta(sseOut.events[4]) /\ sseOut.events[4].data.index = 1
  /\ sseOut.reconstructed.val.content = <<Block(Just(<<"Hi">>)), Block(Just(<<"a">>))>>

\* The requests whose handler has called saveRequest at least once.
ReachedLogging == {r \in Requests : Len(saveCalls[r]) >= 1}

\* C29: with the logger enabled every request whose handler has run through
\* has had exactly one saveRequest call, on the success path or on the
\* failure path, and requestCount is the number of requests whose handler
\* reached a saveRequest call.
C29_SavedExactlyOnce ==
  requestLogger.enabled =>
    /\ \A r \in Requests : HandlerThrough(r) => Len(saveCalls[r]) = 1
    /\ \A r \in Requests : Len(saveCalls[r]) <= 1
    /\ requestLogger.requestCount = Cardinality(ReachedLogging)

\* The number of saveRequest calls made for requests 1..n.
RECURSIVE SaveCallsUpTo(_)
SaveCallsUpTo(n) == IF n = 0 THEN 0 ELSE Len(saveCalls[n]) + SaveCallsUpTo(n - 1)

\* C29, the part that holds: requests for which saveRequest does not reject
\* are saved exactly once, and requestCount is the number of saveRequest
\* calls made.
C29_OnceWhenSaveSettles ==
  requestLogger.enabled =>
    /\ \A r \in Requests :
         (HandlerThrough(r) /\ ~SaveRequestThrows(req[r].body)) => Len(saveCalls[r]) = 1
    /\ requestLogger.requestCount = SaveCallsUpTo(NumRequests)

\* The caches a call of one of the cache module's functions with key k1 can
\* leave behind, from the cache as it stands.
CachesAfterOperationOn(k1) ==
  {requestCache}
    \cup {updateCache(requestCache, k1, body, headers, rh) :
            body \in BodiesFor(k1), headers \in CachedHeaders,
            rh \in OptionalResponseHeaders}
    \cup {updateResponseHeaders(requestCache, k1, rh) : rh \in ResponseHeaders}
    \cup {bustCache(requestCache, k1)}
    \cup {analyzeCacheStatus(requestCache, k1, body, headers).cache :
            body \in BodiesFor(k1), headers \in CachedHeaders}

\* C30: a call of getCachedData, analyzeCacheStatus, updateCache,
\* updateResponseHeaders or bustCache with key k1 leaves every other key as
\* it was: with the same entry, or still without one.
C30_OtherKeysUntouched ==
  \A k1 \in Keys :
    \A after \in CachesAfterOperationOn(k1) :
      \A k2 \in Keys \ {k1} :
        /\ (k2 \in DOMAIN after) <=> (k2 \in DOMAIN requestCache)
        /\ k2 \in DOMAIN requestCache => after[k2] = requestCache[k2]

\* analyzeCacheStatus has just busted m1 (its entry is gone) and m2 still has
\* its entry, response headers included.
C30_Witness ==
  /\ cacheInfo[1].cacheBusted
  /\ req[1].body.model = "m1"
  /\ "m1" \notin DOMAIN requestCache
  /\ "m2" \in DOMAIN requestCache
  /\ Truthy(requestCache["m2"].responseHeaders)
  /\ MsgCount(requestCache["m2"].body) > 0

\* The classification of an analysis: its three flags and its body diff.
ClassificationOf(analysis) ==
  IF Truthy(analysis)
    THEN Just([isFirstRequest |-> analysis.val.isFirstRequest,
               cacheBusted |-> analysis.val.cacheBusted,
               shouldDiff |-> analysis.val.shouldDiff,
               bodyDiff |-> IF NoRecords(analysis.val.bodyDiff) THEN <<>>
                            ELSE analysis.val.bodyDiff.val])
    ELSE Null
RefactoredConfigs(config) == {[config EXCEPT !.compact = c] : c \in BOOLEAN}

\* The cache as it stands, and as it would stand with response headers
\* recorded for one of its keys (what a run with header display on leaves).
WithRecordedHeaders(cache) ==
  {cache} \cup {updateResponseHeaders(cache, k, rh) : k \in Keys, rh \in ResponseHeaders}

\* C31: with body display on and header display off, from every cache state
\* a run of server.js reaches (with or without recorded response headers),
\* the inline request step and proxy.js's request phase (analyzeCacheStatus
\* then updateCache) give the same classification and leave the same cache,
\* and so do the two ways of recording response headers; the caches start
\* equal (empty), so the two stay equal after each step of any sequence.
C31_InlineEqualsRefactored ==
  \A cache \in WithRecordedHeaders(requestCache) :
    /\ \A body \in RequestBodies, headers \in InboundHeaders :
         \A config \in RefactoredConfigs(loggingConfig) :
           LET inline == InlineBodyStep(cache, loggingConfig, body, headers)
               refactored == RequestPhase(cache, config, body, headers)
           IN /\ inline.cache = refactored.cache
              /\ ClassificationOf(inline.cacheAnalysis)
                   = ClassificationOf(refactored.cacheAnalysis)
    /\ \A k \in Keys, rh \in ResponseHeaders :
         InlineRecordResponseHeaders(cache, k, rh) = updateResponseHeaders(cache, k, rh)
    /\ \A body \in RequestBodies, rh \in ResponseHeaders :
         \A config \in RefactoredConfigs(loggingConfig) :
           InlineResponsePhase(cache, loggingConfig, body, rh)
             = ResponsePhase(cache, config, body, rh)

\* server.js has classified a first request with messages, then a shorter
\* request under the same key as cache-busted, and holds the shorter body
\* in the cache; the first request has been answered.
C31_Witness ==
  /\ Recorded(1) /\ Result(1).isFirstRequest /\ MsgCount(req[1].body) > 0
  /\ Recorded(2) /\ KeyOf(2) = KeyOf(1)
  /\ Result(2).cacheBusted
  /\ pc[1] = "responded"
  /\ requestCache[KeyOf(2)].body = req[2].body

\* In compact mode the handler of r has run to its end, so it has written
\* r's request line: logCompact on the success path (proxy.js 179) or in the
\* catch block (proxy.js 260).
CompactLineWritten(r) == loggingConfig.compact /\ pc[r] \in {"responded", "failed"}

\* C32: in compact mode the label CACHED appears only on the line of a keyed
\* request that was diffed against a cached entry and found unchanged.
C32_CachedOnlyWhenUnchanged ==
  \A r \in Requests :
    CompactLineWritten(r) /\ CacheLabel(cacheInfo[r]) = "CACHED"
      => /\ Recorded(r)
         /\ Result(r).shouldDiff
         /\ NoRecords(Result(r).bodyDiff)

\* C32, the part that holds: the line of a request that was classified
\* carries FIRST for first-request, else RESET for cache-busted, else DIFF
\* for a non-empty body diff, else CACHED.
C32_PriorityAmongClassified ==
  \A r \in Requests :
    CompactLineWritten(r) /\ Truthy(cacheAnalysis[r])
      => CacheLabel(cacheInfo[r]) =
           IF Result(r).isFirstRequest THEN "FIRST"
           ELSE IF Result(r).cacheBusted THEN "RESET"
           ELSE IF ~NoRecords(Result(r).bodyDiff) THEN "DIFF"
           ELSE "CACHED"

====
